---------------------------- MODULE Spec2Model ----------------------------
(***************************************************************************)
(* A model of the collected-notes TypeScript client.                       *)
(*                                                                         *)
(* The library is a set of request-building functions over a fetch-like    *)
(* transport.  The source tree holds four revisions of the client:         *)
(*   "current"    src/src/index.tsx:371-691                                *)
(*   "newest"     src/README.md:842-1179                                   *)
(*   "legacy"     src/src/index.tsx:789-932                                *)
(*   "validating" src/README.md:1265-1430                                  *)
(* The variable `variant` says which revision is loaded.                   *)
(*                                                                         *)
(* JavaScript values are tagged records.  Strings the code only            *)
(* concatenates are TLA+ strings; a note body, which the code inspects     *)
(* character by character, is a sequence of one-character strings, and a   *)
(* search term, which encodeURI reads code unit by code unit, is a         *)
(* sequence of UTF-16 code units.  A response body is a sequence of        *)
(* lexical tokens, which JSONparse parses and JSONstringify produces.      *)
(***************************************************************************)
EXTENDS Integers, Sequences, FiniteSets, TLC

VARIABLES
    variant,    \* which revision of the client is loaded
    email,      \* first argument given to collectedNotes
    token,      \* second argument given to collectedNotes
    headers,    \* the `headers` constant the client's operations close over
    calls       \* the operations invoked and not yet forgotten, by slot

vars == <<variant, email, token, headers, calls>>

(***************************************************************************)
(* Bounds of the model.                                                    *)
(***************************************************************************)
MaxPage == 2   \* page numbers range over 1..MaxPage
MaxArgs == 1   \* tiers of values an argument takes with two invocations in view

(***************************************************************************)
(* JavaScript numbers.  A double is held as the shortest decimal that      *)
(* denotes it, the one Number::toString writes: the value of               *)
(* [neg, digits, n] is 0.d1...dk * 10^n with the sign neg, digits having   *)
(* neither a leading nor a trailing zero; zero has no digit and n = 0, and *)
(* keeps its sign.                                                         *)
(***************************************************************************)
Number(neg, digits, n) ==
    [t |-> "number", neg |-> neg, digits |-> digits, n |-> n]
\* Infinity and -Infinity: no digits, and an exponent no finite number has.
Infinity(neg) == Number(neg, <<>>, 310)
IsInfinite(x) == x.digits = <<>> /\ x.n = 310
IsZero(x) == x.digits = <<>> /\ x.n = 0

RECURSIVE IntDigits(_)
\* The decimal digits of a natural number.
IntDigits(i) ==
    IF i < 10 THEN <<i>> ELSE Append(IntDigits(i \div 10), i % 10)

\* Digits without the zeros they start with, or end with.
StripLeading(ds) ==
    IF ds = <<>> \/ ds[1] # 0 THEN ds
    ELSE IF \A i \in 1..Len(ds) : ds[i] = 0 THEN <<>>
    ELSE SubSeq(ds, CHOOSE i \in 1..Len(ds) :
                        ds[i] # 0 /\ \A j \in 1..(i - 1) : ds[j] = 0,
                Len(ds))
StripTrailing(ds) ==
    IF ds = <<>> \/ ds[Len(ds)] # 0 THEN ds
    ELSE IF \A i \in 1..Len(ds) : ds[i] = 0 THEN <<>>
    ELSE SubSeq(ds, 1, CHOOSE i \in 1..Len(ds) :
                           ds[i] # 0 /\ \A j \in (i + 1)..Len(ds) : ds[j] = 0)

DigitChars == <<"0", "1", "2", "3", "4", "5", "6", "7", "8", "9">>
IsDigit(ch) == ch \in {"0", "1", "2", "3", "4", "5", "6", "7", "8", "9"}
DigitOf(ch) == (CHOOSE d \in 1..10 : DigitChars[d] = ch) - 1
DigitsToChars(ds) == [i \in 1..Len(ds) |-> DigitChars[ds[i] + 1]]
Zeros(k) == [i \in 1..k |-> "0"]

\* Number::toString(x), as the sequence of its characters.
NumberToString(x) ==
    LET k == Len(x.digits)
        n == x.n
        ds == DigitsToChars(x.digits)
        e == IF n - 1 < 0 THEN 1 - n ELSE n - 1
        sign == IF x.neg THEN <<"-">> ELSE <<>>
    IN CASE IsZero(x) -> <<"0">>
         [] IsInfinite(x) ->
              sign \o <<"I", "n", "f", "i", "n", "i", "t", "y">>
         [] k <= n /\ n <= 21 -> sign \o ds \o Zeros(n - k)
         [] 0 < n /\ n < k ->
              sign \o SubSeq(ds, 1, n) \o <<".">> \o SubSeq(ds, n + 1, k)
         [] -6 < n /\ n <= 0 -> sign \o <<"0", ".">> \o Zeros(-n) \o ds
         [] OTHER ->
              sign \o <<ds[1]>>
                  \o (IF k = 1 THEN <<>> ELSE <<".">> \o SubSeq(ds, 2, k))
                  \o <<"e", IF n - 1 < 0 THEN "-" ELSE "+">>
                  \o DigitsToChars(IntDigits(e))

(***************************************************************************)
(* JavaScript values.                                                      *)
(***************************************************************************)
JUndef == [t |-> "undefined"]
JNull == [t |-> "null"]
JBool(b) == [t |-> "boolean", v |-> b]
\* The number that is the integer i.
JNum(i) ==
    IF i = 0 THEN Number(FALSE, <<>>, 0)
    ELSE LET ds == IntDigits(IF i < 0 THEN -i ELSE i)
         IN Number(i < 0, StripTrailing(ds), Len(ds))
JStr(s) == [t |-> "string", v |-> s]
JArr(elems) == [t |-> "array", v |-> elems]

\* The keys an object orders as array indices: the canonical numerals of
\* the integers 0 .. 2^32 - 2.
IndexBelow(a, b) ==
    \/ Len(a) < Len(b)
    \/ /\ Len(a) = Len(b)
       /\ \E i \in 1..Len(a) :
             /\ DigitOf(SubSeq(a, i, i)) < DigitOf(SubSeq(b, i, i))
             /\ \A j \in 1..(i - 1) : SubSeq(a, j, j) = SubSeq(b, j, j)
IsArrayIndex(key) ==
    /\ Len(key) >= 1
    /\ \A i \in 1..Len(key) : IsDigit(SubSeq(key, i, i))
    /\ Len(key) > 1 => SubSeq(key, 1, 1) # "0"
    /\ ~IndexBelow("4294967294", key)

\* Setting a key of an object: a key the object has keeps its place and
\* takes the new value; a new array-index key goes among the array-index
\* keys, which come first in ascending order; any other new key goes last.
SetMember(members, key, val) ==
    IF \E i \in 1..Len(members) : members[i][1] = key
    THEN [i \in 1..Len(members) |->
             IF members[i][1] = key THEN <<key, val>> ELSE members[i]]
    ELSE IF ~IsArrayIndex(key) THEN Append(members, <<key, val>>)
    ELSE LET below ==
                 Cardinality({i \in 1..Len(members) :
                                 /\ IsArrayIndex(members[i][1])
                                 /\ IndexBelow(members[i][1], key)})
         IN SubSeq(members, 1, below) \o <<<<key, val>>>>
                \o SubSeq(members, below + 1, Len(members))

RECURSIVE OwnMembers(_, _)
\* The members of the object to which the pairs are assigned one by one.
OwnMembers(pairs, acc) ==
    IF pairs = <<>> THEN acc
    ELSE OwnMembers(Tail(pairs), SetMember(acc, Head(pairs)[1], Head(pairs)[2]))

\* An object is the sequence of its <<key, value>> members in the order
\* Object.keys lists them.
JObj(members) == [t |-> "object", v |-> OwnMembers(members, <<>>)]
\* The string a Response's text() resolves to: the body as delivered.
JText(toks) == [t |-> "text", v |-> toks]
JError(name) == [t |-> "error", v |-> name]

\* JavaScript truthiness, for the values an identifier argument can take.
Truthy(x) ==
    CASE x.t = "undefined" -> FALSE
      [] x.t = "null" -> FALSE
      [] x.t = "number" -> ~IsZero(x)
      [] x.t = "string" -> x.v # ""
      [] x.t = "boolean" -> x.v
      [] OTHER -> TRUE

\* A parameter default (`page: number = 1`): used when the argument is undefined.
Default(x, d) == IF x = JUndef THEN d ELSE x

\* The string made of a sequence of characters.
RECURSIVE Join(_)
Join(chars) == IF chars = <<>> THEN "" ELSE Head(chars) \o Join(Tail(chars))

\* Template-literal interpolation `${x}` of a primitive.
Interp(x) ==
    CASE x.t = "undefined" -> "undefined"
      [] x.t = "null" -> "null"
      [] x.t = "number" -> Join(NumberToString(x))
      [] x.t = "boolean" -> IF x.v THEN "true" ELSE "false"
      [] OTHER -> x.v

\* String.prototype.startsWith on character sequences.
StartsWith(chars, prefix) ==
    /\ Len(chars) >= Len(prefix)
    /\ SubSeq(chars, 1, Len(prefix)) = prefix

(***************************************************************************)
(* JSON text, as a sequence of tokens.                                     *)
(*   "p"   punctuation        { } [ ] : ,                                  *)
(*   "n"   a number literal, s the sequence of its characters              *)
(*   "s"   a string literal, s its contents                                *)
(*   "w"   a bare word        null true false                              *)
(*   "raw" text that is no JSON token (markdown, HTML, plain text)         *)
(***************************************************************************)
Tok(k, s) == [k |-> k, s |-> s]
P(s) == Tok("p", s)

\* The number of digit characters chars has from position i on.
DigitRun(chars, i) ==
    IF \A j \in i..Len(chars) : IsDigit(chars[j]) THEN Len(chars) + 1 - i
    ELSE (CHOOSE j \in i..Len(chars) :
              ~IsDigit(chars[j]) /\ \A m \in i..(j - 1) : IsDigit(chars[m])) - i

\* The places of a number literal, by the JSON grammar
\*   -? (0 | [1-9][0-9]*) (. [0-9]+)? ([eE] [+-]? [0-9]+)?
\* read from left to right: the sign and the integer part, ...
ScanInt(chars, neg, int) ==
    [neg |-> neg, int |-> int, nInt |-> DigitRun(chars, int)]
\* ... the fraction, which starts at its "." ...
ScanFrac(chars, p, dot, hasFrac) ==
    [neg |-> p.neg, int |-> p.int, nInt |-> p.nInt, hasFrac |-> hasFrac,
     frac |-> dot + 1,
     nFrac |-> IF hasFrac THEN DigitRun(chars, dot + 1) ELSE 0]
\* ... the "e" or "E" of the exponent, its sign ...
ScanExp(chars, p, exp, hasExp) ==
    [neg |-> p.neg, int |-> p.int, nInt |-> p.nInt, hasFrac |-> p.hasFrac,
     frac |-> p.frac, nFrac |-> p.nFrac, exp |-> exp, hasExp |-> hasExp,
     hasSign |-> /\ hasExp
                 /\ exp + 1 <= Len(chars)
                 /\ chars[exp + 1] \in {"+", "-"}]
\* ... and its digits.
ScanExpDigits(chars, p, expDigits) ==
    [neg |-> p.neg, int |-> p.int, nInt |-> p.nInt, hasFrac |-> p.hasFrac,
     frac |-> p.frac, nFrac |-> p.nFrac, hasExp |-> p.hasExp,
     expNeg |-> p.hasSign /\ chars[p.exp + 1] = "-",
     expDigits |-> expDigits,
     nExp |-> IF p.hasExp THEN DigitRun(chars, expDigits) ELSE 0]
ScanEnd(p, exp) ==
    [neg |-> p.neg, int |-> p.int, nInt |-> p.nInt, hasFrac |-> p.hasFrac,
     frac |-> p.frac, nFrac |-> p.nFrac, hasExp |-> p.hasExp,
     expNeg |-> p.expNeg, expDigits |-> p.expDigits, nExp |-> p.nExp,
     end |-> IF p.hasExp THEN p.expDigits + p.nExp ELSE exp]

HasCharAt(chars, i, set) == i <= Len(chars) /\ chars[i] \in set
FromInt(chars, p) ==
    ScanFrac(chars, p, p.int + p.nInt,
             HasCharAt(chars, p.int + p.nInt, {"."}))
ExpStart(p) == IF p.hasFrac THEN p.frac + p.nFrac ELSE p.frac - 1
FromFrac(chars, p) ==
    ScanExp(chars, p, ExpStart(p), HasCharAt(chars, ExpStart(p), {"e", "E"}))
FromExp(chars, p) ==
    ScanEnd(ScanExpDigits(chars, p,
                          IF p.hasSign THEN p.exp + 2 ELSE p.exp + 1),
            p.exp)
NumLitParts(chars) ==
    FromExp(chars,
        FromFrac(chars,
            FromInt(chars,
                ScanInt(chars, HasCharAt(chars, 1, {"-"}),
                        IF HasCharAt(chars, 1, {"-"}) THEN 2 ELSE 1))))

WellFormed(chars, p) ==
    /\ p.nInt >= 1
    /\ chars[p.int] = "0" => p.nInt = 1
    /\ p.hasFrac => p.nFrac >= 1
    /\ p.hasExp => p.nExp >= 1
    /\ p.end = Len(chars) + 1
IsNumLit(chars) == WellFormed(chars, NumLitParts(chars))

\* The digits a literal writes before its exponent.
WrittenDigits(chars, p) ==
    [i \in 1..(p.nInt + p.nFrac) |->
        DigitOf(IF i <= p.nInt THEN chars[p.int + i - 1]
                ELSE chars[p.frac + i - p.nInt - 1])]
\* The exponent a literal writes, as the integer it denotes.  One of ten
\* digits or more stands at 10^9: only a literal of some 10^9 digits brings
\* such an exponent back among the doubles.
ExponentValue(chars, p) ==
    LET written ==
            StripLeading([i \in 1..p.nExp |->
                             DigitOf(chars[p.expDigits + i - 1])])
        digit(i) == IF i <= Len(written) THEN written[Len(written) + 1 - i]
                    ELSE 0
        value(ds) ==
            IF Len(ds) > 9 THEN 1000000000
            ELSE digit(1) + 10 * digit(2) + 100 * digit(3) + 1000 * digit(4)
                 + 10000 * digit(5) + 100000 * digit(6) + 1000000 * digit(7)
                 + 10000000 * digit(8) + 100000000 * digit(9)
    IN IF p.expNeg THEN -value(written) ELSE value(written)

(***************************************************************************)
(* Doubles.  A literal denotes the double nearest to its decimal value,    *)
(* a tie going to the even significand, and a double is written with the   *)
(* fewest digits that denote it.  A double has a significand of at most 53 *)
(* bits, the lowest of exponent -1074 or more and the highest of exponent  *)
(* 1023 or less.  Naturals too large for an integer of the model are       *)
(* sequences of decimal digits or of bits, most significant first.         *)
(***************************************************************************)
\* The conversions loop over digits and bits.  The state of a loop: which
\* loop it is, the digits and the bits it holds, a number e it counts, and
\* a number s of decimal places.
Loop(op, ds, bits, e, s) ==
    [op |-> op, ds |-> ds, bits |-> bits, e |-> e, s |-> s]
LoopStep(l) ==
    LET carry(ds) == IF ds # <<>> /\ ds[1] >= 5 THEN 1 ELSE 0
        \* twice the fraction 0.ds, less the unit it carries out
        twiceFrac(ds) ==
            <<>> \o [i \in 1..Len(ds) |->
                       ((2 * ds[i]) % 10)
                       + (IF i < Len(ds) /\ ds[i + 1] >= 5 THEN 1 ELSE 0)]
        \* twice the natural number ds, and half of it, rounded down
        twice(ds) == (IF carry(ds) = 1 THEN <<1>> ELSE <<>>) \o twiceFrac(ds)
        halved(ds) ==
            StripLeading(
                [i \in 1..Len(ds) |->
                    (ds[i] \div 2)
                    + (IF i > 1 /\ ds[i - 1] % 2 = 1 THEN 5 ELSE 0)])
    IN CASE l.op = "bits" ->
              \* the bits of the natural number ds, the lowest first
              Loop(l.op, halved(l.ds), <<l.ds[Len(l.ds)] % 2>> \o l.bits, 0, 0)
         [] l.op = "lead" ->
              \* the leading bit of the fraction 0.ds, looked for at exponent e
              Loop(l.op, twiceFrac(l.ds),
                   IF carry(l.ds) = 1 THEN <<1>> ELSE <<>>,
                   IF carry(l.ds) = 1 THEN l.e ELSE l.e - 1, 0)
         [] l.op = "take" ->
              \* the next e bits of the fraction 0.ds
              Loop(l.op, twiceFrac(l.ds), Append(l.bits, carry(l.ds)),
                   l.e - 1, 0)
         [] l.op = "value" ->
              \* the natural number the bits write, the highest first
              Loop(l.op,
                   IF Head(l.bits) = 0 THEN twice(l.ds)
                   ELSE IF l.ds = <<>> THEN <<1>>
                   ELSE [twice(l.ds) EXCEPT ![Len(twice(l.ds))] = @ + 1],
                   Tail(l.bits), 0, 0)
         [] l.op = "scale" ->
              \* ds / 10^s * 2^e
              IF l.e > 0 THEN Loop(l.op, twice(l.ds), <<>>, l.e - 1, l.s)
              ELSE IF l.ds[Len(l.ds)] % 2 = 1
              THEN Loop(l.op, halved(Append(l.ds, 0)), <<>>, l.e + 1, l.s + 1)
              ELSE Loop(l.op, halved(l.ds), <<>>, l.e + 1, l.s)
RECURSIVE LoopRun(_, _)
\* The state of a loop when it is over, or after n steps.
LoopRun(l, n) ==
    LET over(x) ==
            CASE x.op = "bits" -> x.ds = <<>>
              [] x.op = "lead" -> x.bits # <<>> \/ x.e < -1075
              [] x.op = "take" -> x.e = 0
              [] x.op = "value" -> x.bits = <<>>
              [] x.op = "scale" -> x.e = 0
    IN IF n = 0 \/ over(l) THEN l
       ELSE IF n = 1 THEN LoopStep(l)
       ELSE LET half == LoopRun(l, n \div 2)
            IN IF over(half) THEN half
               ELSE LoopRun(half, n - (n \div 2))

\* The double nearest to the decimal is.fs: the bits of its significand,
\* from the leading bit, and the exponent q of the last of them.
NearestDouble(is, fs) ==
    LET \* the exponent of the lowest bit kept of a value whose leading bit
        \* has exponent e
        lowest(e) == IF e - 52 > -1074 THEN e - 52 ELSE -1074
        \* the first `count` bits of the fraction 0.ds, and what is left
        take(ds, count) == LoopRun(Loop("take", ds, <<>>, count, 0), count)
        \* the value in binary: the bits from the leading bit down to the
        \* bit below the lowest bit kept, the exponent q of the lowest bit
        \* kept, and whether anything is left below
        expansion(bits, taken, q) ==
            [bits |-> bits \o taken.bits, q |-> q,
             sticky |-> \E i \in 1..Len(taken.ds) : taken.ds[i] # 0]
        \* ... of a value with the integer bits ib
        fromInt(ib) ==
            IF Len(ib) > 53
            THEN [bits |-> SubSeq(ib, 1, 54), q |-> Len(ib) - 53,
                  sticky |-> \/ \E i \in 55..Len(ib) : ib[i] = 1
                             \/ \E i \in 1..Len(fs) : fs[i] # 0]
            ELSE expansion(ib, take(fs, 54 - Len(ib)), Len(ib) - 53)
        \* ... of a value below one, whose leading bit is at lead.e
        fromFrac(lead) ==
            IF lead.bits = <<>>
            THEN [bits |-> <<0>>, q |-> -1074, sticky |-> FALSE]
            ELSE expansion(<<1>>,
                           take(lead.ds, lead.e - lowest(lead.e) + 1),
                           lowest(lead.e))
        \* one more than the natural number the bits write
        next(bits) ==
            IF \A i \in 1..Len(bits) : bits[i] = 1
            THEN <<1>> \o [i \in 1..Len(bits) |-> 0]
            ELSE [i \in 1..Len(bits) |->
                     IF \A j \in i..Len(bits) : bits[j] = 1 THEN 0
                     ELSE IF \A j \in (i + 1)..Len(bits) : bits[j] = 1
                     THEN 1 ELSE bits[i]]
        carried(bits, q) ==
            IF Len(bits) > 53 THEN [bits |-> SubSeq(bits, 1, 53), q |-> q + 1]
            ELSE [bits |-> bits, q |-> q]
        \* rounding to nearest, a tie to the even significand
        rounded(kept, round, x) ==
            IF /\ round = 1
               /\ x.sticky \/ (kept # <<>> /\ kept[Len(kept)] = 1)
            THEN carried(next(kept), x.q)
            ELSE [bits |-> kept, q |-> x.q]
        nearest(x) ==
            rounded(SubSeq(x.bits, 1, Len(x.bits) - 1), x.bits[Len(x.bits)], x)
    IN nearest(IF is # <<>>
               \* the bits of the integer part, fewer than 4 for each digit
               THEN fromInt(LoopRun(Loop("bits", is, <<>>, 0, 0),
                                    4 * Len(is)).bits)
               \* the leading bit of the fraction, down to the bit below
               \* the lowest a double holds
               ELSE fromFrac(LoopRun(Loop("lead", fs, <<>>, -1, 0), 1075)))

\* The digits Number::toString writes for a double x that is not zero: the
\* decimal 0.digits * 10^n of the fewest digits that denotes x, the nearest
\* to x of those, and the even one of two as near.
ShortestDecimal(x) ==
    LET \* ds * 2^q, as ds / 10^s
        scaled(ds, q) ==
            LoopRun(Loop("scale", ds, <<>>, q, 0), IF q < 0 THEN -q ELSE q)
        \* the order of the natural numbers two sequences of digits write
        less(a, b) ==
            \/ Len(a) < Len(b)
            \/ /\ Len(a) = Len(b)
               /\ \E i \in 1..Len(a) :
                      a[i] < b[i] /\ \A j \in 1..(i - 1) : a[j] = b[j]
        natLess(ds, es) == less(StripLeading(ds), StripLeading(es))
        \* the digits of y in units of 10^-s
        inUnits(y, s) == y.ds \o [i \in 1..(s - y.s) |-> 0]
        \* a distance within half the gap to the next double: a halfway
        \* point denotes the double of even significand
        within(dist, gap, even) ==
            natLess(dist, gap) \/ (even /\ ~natLess(gap, dist))
        \* 10^Len(t) - t, for t that is not zero
        complement(t) ==
            [i \in 1..Len(t) |->
                IF \A j \in i..Len(t) : t[j] = 0 THEN 0
                ELSE IF \A j \in (i + 1)..Len(t) : t[j] = 0 THEN 10 - t[i]
                ELSE 9 - t[i]]
        \* one more than the natural number the digits write
        next(ds) ==
            IF \A i \in 1..Len(ds) : ds[i] = 9
            THEN <<1>> \o [i \in 1..Len(ds) |-> 0]
            ELSE [i \in 1..Len(ds) |->
                     IF \A j \in i..Len(ds) : ds[j] = 9 THEN 0
                     ELSE IF \A j \in (i + 1)..Len(ds) : ds[j] = 9
                     THEN ds[i] + 1 ELSE ds[i]]
        \* the decimal 0.ds * 10^n
        decimal(ds, n) == [digits |-> StripTrailing(ds), n |-> n]
        decimalAbove(ds, k, n) ==
            decimal(ds, IF Len(ds) > k THEN n + 1 ELSE n)
        \* of the decimals of k digits next below v and next above it, the
        \* one that denotes x: v is `head` followed by `tail`, and `rest` is
        \* what `tail` lacks to the decimal above
        cut(head, tail, rest, n, below, above, even) ==
            IF \A i \in 1..Len(tail) : tail[i] = 0
            THEN [ok |-> TRUE, val |-> decimal(head, n)]
            ELSE IF /\ within(tail, below, even)
                    /\ \/ ~within(rest, above, even)
                       \/ natLess(tail, rest)
                       \/ ~natLess(rest, tail) /\ head[Len(head)] % 2 = 0
            THEN [ok |-> TRUE, val |-> decimal(head, n)]
            ELSE IF within(rest, above, even)
            THEN [ok |-> TRUE, val |-> decimalAbove(next(head), Len(head), n)]
            ELSE [ok |-> FALSE]
        cutAt(v, k, n, below, above, even) ==
            cut(SubSeq(v, 1, k), SubSeq(v, k + 1, Len(v)),
                complement(SubSeq(v, k + 1, Len(v))), n, below, above, even)
        \* the cut of the fewest digits
        shortest(v, n, below, above, even) ==
            cutAt(v,
                  CHOOSE k \in 1..Len(v) :
                      /\ cutAt(v, k, n, below, above, even).ok
                      /\ \A j \in 1..(k - 1) :
                             ~cutAt(v, j, n, below, above, even).ok,
                  n, below, above, even).val
        \* v is the value of x, and `below` and `above` half the gaps to the
        \* doubles next to it, all three in the units of `below`
        among(v, below, above, even) ==
            shortest(inUnits(v, below.s), Len(inUnits(v, below.s)) - below.s,
                     below.ds, inUnits(above, below.s), even)
    IN among(scaled(LoopRun(Loop("value", <<>>, x.bits, 0, 0),
                            Len(x.bits)).ds, x.q),
             \* the gap below a power of two is half the gap above it
             scaled(<<1>>, IF /\ Len(x.bits) = 53
                              /\ \A i \in 2..53 : x.bits[i] = 0
                              /\ x.q > -1074
                           THEN x.q - 2 ELSE x.q - 1),
             scaled(<<1>>, x.q - 1),
             x.bits[Len(x.bits)] = 0)

\* The double nearest to 0.digits * 10^n.  From 10^309 on it is an infinity
\* and below 10^-324 a zero; a decimal of at most 15 digits well within the
\* range of the doubles is the shortest that denotes its double.
Rounded(neg, digits, n) ==
    LET ofDecimal(d) == Number(neg, d.digits, d.n)
        ofDouble(x) ==
            IF x.bits = <<>> THEN Number(neg, <<>>, 0)
            ELSE IF x.q + Len(x.bits) - 1 > 1023 THEN Infinity(neg)
            ELSE ofDecimal(ShortestDecimal(x))
    IN IF digits = <<>> \/ n < -323 THEN Number(neg, <<>>, 0)
       ELSE IF n > 309 THEN Infinity(neg)
       ELSE IF Len(digits) <= 15 /\ n \in -300..300
       THEN Number(neg, digits, n)
       ELSE ofDouble(NearestDouble(
                \* the digits before the point, and those after it
                IF n <= 0 THEN <<>>
                ELSE <<>> \o [i \in 1..n |->
                                IF i <= Len(digits) THEN digits[i] ELSE 0],
                IF n >= Len(digits) THEN <<>>
                ELSE <<>> \o [i \in 1..(Len(digits) - n) |->
                                IF i + n <= 0 THEN 0 ELSE digits[i + n]]))

\* The number of a literal of the parts p: zeros before the first digit
\* that is not zero lower the exponent, those after the last carry no value.
NumOfParts(chars, p) ==
    LET written == WrittenDigits(chars, p)
    IN Rounded(p.neg, StripTrailing(StripLeading(written)),
               p.nInt - (Len(written) - Len(StripLeading(written)))
               + ExponentValue(chars, p))

\* The number a number literal denotes.
NumOf(chars) == NumOfParts(chars, NumLitParts(chars))

RECURSIVE JSONstringify(_), StringifyElems(_), StringifyMembers(_)
JSONstringify(x) ==
    CASE x.t = "null" -> <<Tok("w", "null")>>
      [] x.t = "boolean" -> <<Tok("w", IF x.v THEN "true" ELSE "false")>>
      [] x.t = "number" ->
           \* a number that is not finite is written as null
           IF IsInfinite(x) THEN <<Tok("w", "null")>>
           ELSE <<Tok("n", NumberToString(x))>>
      [] x.t = "string" -> <<Tok("s", x.v)>>
      [] x.t = "array" -> <<P("[")>> \o StringifyElems(x.v) \o <<P("]")>>
      [] x.t = "object" -> <<P("{")>> \o StringifyMembers(x.v) \o <<P("}")>>
StringifyElems(elems) ==
    IF elems = <<>> THEN <<>>
    ELSE \* an undefined array element is written as null
         (IF Head(elems) = JUndef THEN <<Tok("w", "null")>>
          ELSE JSONstringify(Head(elems)))
         \o (IF Tail(elems) = <<>> THEN <<>>
             ELSE <<P(",")>> \o StringifyElems(Tail(elems)))
StringifyMembers(members) ==
    IF members = <<>> THEN <<>>
    ELSE LET m == Head(members)
             rest == StringifyMembers(Tail(members))
         IN  \* a member whose value is undefined is left out
             IF m[2] = JUndef THEN rest
             ELSE <<Tok("s", m[1]), P(":")>> \o JSONstringify(m[2])
                  \o (IF rest = <<>> THEN <<>> ELSE <<P(",")>> \o rest)

ParseFail == [ok |-> FALSE]
ParseOk(val, rest) == [ok |-> TRUE, val |-> val, rest |-> rest]

RECURSIVE ParseValue(_), ParseElems(_, _), ParseMembers(_, _)
ParseValue(toks) ==
    IF toks = <<>> THEN ParseFail
    ELSE LET h == Head(toks)
             r == Tail(toks)
         IN CASE h.k = "n" /\ IsNumLit(h.s) -> ParseOk(NumOf(h.s), r)
              [] h.k = "s" -> ParseOk(JStr(h.s), r)
              [] h.k = "w" /\ h.s = "null" -> ParseOk(JNull, r)
              [] h.k = "w" /\ h.s = "true" -> ParseOk(JBool(TRUE), r)
              [] h.k = "w" /\ h.s = "false" -> ParseOk(JBool(FALSE), r)
              [] h.k = "p" /\ h.s = "[" ->
                   IF r # <<>> /\ Head(r) = P("]")
                   THEN ParseOk(JArr(<<>>), Tail(r))
                   ELSE ParseElems(r, <<>>)
              [] h.k = "p" /\ h.s = "{" ->
                   IF r # <<>> /\ Head(r) = P("}")
                   THEN ParseOk(JObj(<<>>), Tail(r))
                   ELSE ParseMembers(r, <<>>)
              [] OTHER -> ParseFail
\* toks starts at an element; acc holds the elements read so far.
ParseElems(toks, acc) ==
    LET e == ParseValue(toks)
    IN IF ~e.ok \/ e.rest = <<>> THEN ParseFail
       ELSE IF Head(e.rest) = P("]")
            THEN ParseOk(JArr(Append(acc, e.val)), Tail(e.rest))
       ELSE IF Head(e.rest) = P(",")
            THEN ParseElems(Tail(e.rest), Append(acc, e.val))
       ELSE ParseFail
\* toks starts at a member's key; acc holds the members read so far.
ParseMembers(toks, acc) ==
    IF Len(toks) < 2 \/ toks[1].k # "s" \/ toks[2] # P(":") THEN ParseFail
    ELSE LET e == ParseValue(SubSeq(toks, 3, Len(toks)))
         IN IF ~e.ok \/ e.rest = <<>> THEN ParseFail
            ELSE LET acc2 == Append(acc, <<toks[1].s, e.val>>)
                 IN IF Head(e.rest) = P("}")
                    THEN ParseOk(JObj(acc2), Tail(e.rest))
                    ELSE IF Head(e.rest) = P(",")
                         THEN ParseMembers(Tail(e.rest), acc2)
                    ELSE ParseFail

SyntaxError == JError("SyntaxError")

\* JSON.parse of a whole text: the value, or SyntaxError.
JSONparse(toks) ==
    LET p == ParseValue(toks)
    IN IF p.ok /\ p.rest = <<>> THEN p.val ELSE SyntaxError

(***************************************************************************)
(* The transport: fetch(url, init) and the Response it resolves to.        *)
(***************************************************************************)
Base == "https://collectednotes.com"

\* fetch(url) called without an init object.
NoInit == [n \in {} |-> n]

\* The request fetch issues for (url, init): a missing method is GET, missing
\* headers are none, a missing body is empty.
Fetch(url, init) ==
    [url |-> url,
     method |-> IF "method" \in DOMAIN init THEN init.method ELSE "GET",
     headers |-> IF "headers" \in DOMAIN init THEN init.headers ELSE {},
     body |-> IF "body" \in DOMAIN init THEN init.body ELSE <<>>]

Response(status, body) ==
    [t |-> "response", status |-> status, ok |-> status \in 200..299,
     body |-> body]

\* What fetch rejects with when the network fails.
NetworkError == JError("TypeError")

\* The body of a response whose stream breaks before its end, and what
\* response.json() and response.text() reject with when they read it.
Terminated == <<Tok("abort", "terminated")>>
StreamError == [t |-> "error", v |-> "TypeError", message |-> "terminated"]

\* The value of a header of a request, "" when the request does not carry it.
HeaderOf(req, name) ==
    IF \E h \in req.headers : h[1] = name
    THEN (CHOOSE h \in req.headers : h[1] = name)[2]
    ELSE ""
HasHeader(req, name) == \E h \in req.headers : h[1] = name

(***************************************************************************)
(* What an async function does up to its first suspension:                 *)
(*   Throw(e)        it throws before any request: the promise rejects     *)
(*   Await(req, k)   it calls fetch(req) and awaits; k is what it does     *)
(*                   with the response:                                    *)
(*                     "json"      return await response.json()            *)
(*                     "text"      return await response.text()            *)
(*                     "response"  return response                         *)
(*                     "void"      return nothing                          *)
(*                   with "json" and "text" it suspends a second time,     *)
(*                   until the body has been read                          *)
(*   Return(v)       it returns v without any request                      *)
(***************************************************************************)
Throw(e) == [kind |-> "throw", error |-> e]
Await(req, k) == [kind |-> "await", request |-> req, then |-> k]
Return(v) == [kind |-> "return", value |-> v]

(***************************************************************************)
(* The client factory and its operations ("current" revision).             *)
(***************************************************************************)
\* A faulty collectedNotes: the credential lacks the space between the email
\* and the token.
collectedNotes_NoSpace(e, tk) ==
    {<<"Authorization", e \o tk>>,
     <<"Accept", "application/json">>,
     <<"Content-Type", "application/json">>}

\* The headers object built by collectedNotes(email, token).
collectedNotes(e, tk) ==
    {<<"Authorization", e \o " " \o tk>>,
     <<"Accept", "application/json">>,
     <<"Content-Type", "application/json">>}

\* JSON.stringify({ note: { body, visibility } }) of a note content.
NotePayload(body, visibility) ==
    JSONstringify(JObj(<< <<"note",
        JObj(<< <<"body", JStr(Join(body))>>,
                <<"visibility", visibility>> >>)>> >>))

latestNotes(siteId, page) ==
    LET p == Default(page, JNum(1))
    IN Await(Fetch(Base \o "/sites/" \o Interp(siteId) \o "/notes?page="
                       \o Interp(p),
                   [headers |-> headers]),
             "json")

sites == Await(Fetch(Base \o "/sites", [headers |-> headers]), "json")

\* A faulty create: the site identifier is ignored.
create_IgnoresSite(note, siteId) ==
    Await(Fetch(Base \o "/notes/add",
                [method |-> "POST", headers |-> headers,
                 body |-> NotePayload(note.body, note.visibility)]),
          "json")

\* A faulty create: the content is sent whole, with every field it has.
create_SendsContent(note, siteId) ==
    LET known == << <<"body", JStr(Join(note.body))>>,
                    <<"visibility", note.visibility>> >>
        sent == IF "title" \in DOMAIN note
                THEN Append(known, <<"title", note.title>>)
                ELSE known
    IN Await(Fetch(IF Truthy(siteId)
                   THEN Base \o "/sites/" \o Interp(siteId) \o "/notes"
                   ELSE Base \o "/notes/add",
                   [method |-> "POST", headers |-> headers,
                    body |-> JSONstringify(JObj(<< <<"note", JObj(sent)>> >>))]),
             "json")

create(note, siteId) ==
    LET url == IF Truthy(siteId)
               THEN Base \o "/sites/" \o Interp(siteId) \o "/notes"
               ELSE Base \o "/notes/add"
    IN Await(Fetch(url, [method |-> "POST", headers |-> headers,
                         body |-> NotePayload(note.body, note.visibility)]),
             "json")

\* A faulty update: the note is sent with PUT.
update_Put(siteId, noteId, note) ==
    Await(Fetch(Base \o "/sites/" \o Interp(siteId) \o "/notes/"
                    \o Interp(noteId),
                [method |-> "PUT", headers |-> headers,
                 body |-> NotePayload(note.body, note.visibility)]),
          "json")

update(siteId, noteId, note) ==
    Await(Fetch(Base \o "/sites/" \o Interp(siteId) \o "/notes/"
                    \o Interp(noteId),
                [method |-> "POST", headers |-> headers,
                 body |-> NotePayload(note.body, note.visibility)]),
          "json")

destroy(siteId, noteId) ==
    Await(Fetch(Base \o "/sites/" \o Interp(siteId) \o "/notes/"
                    \o Interp(noteId),
                [headers |-> headers, method |-> "DELETE"]),
          "void")

me == Await(Fetch(Base \o "/accounts/me", [headers |-> headers]), "json")

\* A faulty reorder: the identifiers are sent in reverse order.
reorder_Reversed(siteId, noteIdList) ==
    LET n == Len(noteIdList.v)
        reversed == JArr([i \in 1..n |-> noteIdList.v[n + 1 - i]])
    IN Await(Fetch(Base \o "/sites/" \o Interp(siteId) \o "/notes/reorder",
                   [method |-> "POST", headers |-> headers,
                    body |-> JSONstringify(JObj(<< <<"ids", reversed>> >>))]),
             "json")

reorder(siteId, noteIdList) ==
    Await(Fetch(Base \o "/sites/" \o Interp(siteId) \o "/notes/reorder",
                [method |-> "POST", headers |-> headers,
                 body |-> JSONstringify(JObj(<< <<"ids", noteIdList>> >>))]),
          "json")

body(siteId, noteId) ==
    Await(Fetch(Base \o "/sites/" \o Interp(siteId) \o "/notes/"
                    \o Interp(noteId) \o "/body",
                [method |-> "GET", headers |-> headers]),
          "json")

links(siteId, noteId, format) ==
    LET f == Default(format, JStr("json"))
    IN Await(Fetch(Base \o "/sites/" \o Interp(siteId) \o "/notes/"
                       \o Interp(noteId) \o "/links"
                       \o (IF f = JStr("json") THEN ".json" ELSE ""),
                   [method |-> "GET", headers |-> headers]),
             "json")

site(sitePath, page, visibility) ==
    LET p == Default(page, JNum(1))
        v == Default(visibility, JStr("public"))
    IN Await(Fetch(Base \o "/" \o sitePath \o ".json?page=" \o Interp(p)
                       \o "&visibility=" \o Interp(v),
                   NoInit),
             "json")

\* A faulty read: the JSON form is returned as text, unparsed.
read_JsonAsText(sitePath, notePath, format) ==
    LET f == Default(format, JStr("json"))
        suffix == CASE f = JStr("json") -> ".json"
                    [] f = JStr("md") -> ".md"
                    [] f = JStr("txt") -> ".text"
                    [] OTHER -> ""
        known == f \in {JStr("json"), JStr("md"), JStr("txt")}
    IN IF ~known THEN Return(JUndef)
       ELSE Await(Fetch(Base \o "/" \o sitePath \o "/" \o notePath
                            \o suffix, NoInit), "text")

\* A faulty read: every form is parsed as JSON.
read_TextAsJson(sitePath, notePath, format) ==
    LET f == Default(format, JStr("json"))
        suffix == CASE f = JStr("json") -> ".json"
                    [] f = JStr("md") -> ".md"
                    [] f = JStr("txt") -> ".text"
                    [] OTHER -> ""
        known == f \in {JStr("json"), JStr("md"), JStr("txt")}
    IN IF ~known THEN Return(JUndef)
       ELSE Await(Fetch(Base \o "/" \o sitePath \o "/" \o notePath
                            \o suffix, NoInit), "json")

\* A faulty read: the plain-text form is requested with the suffix ".txt".
read_TxtSuffix(sitePath, notePath, format) ==
    LET f == Default(format, JStr("json"))
    IN CASE f = JStr("json") ->
              Await(Fetch(Base \o "/" \o sitePath \o "/" \o notePath
                              \o ".json", NoInit), "json")
         [] f = JStr("md") ->
              Await(Fetch(Base \o "/" \o sitePath \o "/" \o notePath
                              \o ".md", NoInit), "text")
         [] f = JStr("txt") ->
              Await(Fetch(Base \o "/" \o sitePath \o "/" \o notePath
                              \o ".txt", NoInit), "text")
         [] OTHER -> Return(JUndef)

\* A faulty read: a format it does not know is taken for json.
read_UnknownAsJson(sitePath, notePath, format) ==
    LET f == Default(format, JStr("json"))
    IN CASE f = JStr("md") ->
              Await(Fetch(Base \o "/" \o sitePath \o "/" \o notePath
                              \o ".md", NoInit), "text")
         [] f = JStr("txt") ->
              Await(Fetch(Base \o "/" \o sitePath \o "/" \o notePath
                              \o ".text", NoInit), "text")
         [] OTHER ->
              Await(Fetch(Base \o "/" \o sitePath \o "/" \o notePath
                              \o ".json", NoInit), "json")

read(sitePath, notePath, format) ==
    LET f == Default(format, JStr("json"))
    IN CASE f = JStr("json") ->
              Await(Fetch(Base \o "/" \o sitePath \o "/" \o notePath
                              \o ".json", NoInit), "json")
         [] f = JStr("md") ->
              Await(Fetch(Base \o "/" \o sitePath \o "/" \o notePath
                              \o ".md", NoInit), "text")
         [] f = JStr("txt") ->
              Await(Fetch(Base \o "/" \o sitePath \o "/" \o notePath
                              \o ".text", NoInit), "text")
         [] OTHER -> Return(JUndef)


(***************************************************************************)
(* encodeURI.  A string is read as UTF-16 code units; a code point is      *)
(* written as it is when it is one of the ASCII letters and digits and     *)
(*   ; / ? : @ & = + $ , # - _ . ! ~ * ' ( )                               *)
(* and as its percent-encoded UTF-8 bytes otherwise.  A surrogate that is  *)
(* not half of a pair makes encodeURI throw a URIError.                    *)
(***************************************************************************)
UpperChars ==
    <<"A", "B", "C", "D", "E", "F", "G", "H", "I", "J", "K", "L", "M", "N",
      "O", "P", "Q", "R", "S", "T", "U", "V", "W", "X", "Y", "Z">>
LowerChars ==
    <<"a", "b", "c", "d", "e", "f", "g", "h", "i", "j", "k", "l", "m", "n",
      "o", "p", "q", "r", "s", "t", "u", "v", "w", "x", "y", "z">>
\* The characters encodeURI leaves alone, each with its code unit.
UriLetters ==
    {<<47 + i, DigitChars[i]>> : i \in 1..10}
        \cup {<<64 + i, UpperChars[i]>> : i \in 1..26}
        \cup {<<96 + i, LowerChars[i]>> : i \in 1..26}
UriReserved ==
    {<<59, ";">>, <<47, "/">>, <<63, "?">>, <<58, ":">>, <<64, "@">>,
     <<38, "&">>, <<61, "=">>, <<43, "+">>, <<36, "$">>, <<44, ",">>,
     <<35, "#">>}
UriMarks ==
    {<<45, "-">>, <<95, "_">>, <<46, ".">>, <<33, "!">>, <<126, "~">>,
     <<42, "*">>, <<39, "'">>, <<40, "(">>, <<41, ")">>}
UriUnescaped == UriLetters \cup UriReserved \cup UriMarks
IsUnescaped(u) == \E p \in UriUnescaped : p[1] = u
\* The character of a code unit encodeURI leaves alone.
Chr(u) == (CHOOSE p \in UriUnescaped : p[1] = u)[2]

HexChars ==
    <<"0", "1", "2", "3", "4", "5", "6", "7", "8", "9",
      "A", "B", "C", "D", "E", "F">>
PercentByte(b) == <<"%", HexChars[(b \div 16) + 1], HexChars[(b % 16) + 1]>>

\* The UTF-8 bytes of a code point.
UTF8(cp) ==
    CASE cp < 128 -> <<cp>>
      [] cp >= 128 /\ cp < 2048 -> <<192 + (cp \div 64), 128 + (cp % 64)>>
      [] cp >= 2048 /\ cp < 65536 ->
           <<224 + (cp \div 4096), 128 + ((cp \div 64) % 64), 128 + (cp % 64)>>
      [] OTHER ->
           <<240 + (cp \div 262144), 128 + ((cp \div 4096) % 64),
             128 + ((cp \div 64) % 64), 128 + (cp % 64)>>

URIError == JError("URIError")

IsHighSurrogate(u) == u \in 55296..56319
IsLowSurrogate(u) == u \in 56320..57343
\* A surrogate of the string is not half of a pair.
HasLoneSurrogate(units) ==
    \E i \in 1..Len(units) :
        \/ /\ IsHighSurrogate(units[i])
           /\ (i = Len(units) \/ ~IsLowSurrogate(units[i + 1]))
        \/ /\ IsLowSurrogate(units[i])
           /\ (i = 1 \/ ~IsHighSurrogate(units[i - 1]))

\* What encodeURI writes for a code point.
EncodeURIChar(cp) ==
    IF IsUnescaped(cp) THEN <<Chr(cp)>>
    ELSE LET bytes == UTF8(cp)
             escapes == [i \in 1..Len(bytes) |-> PercentByte(bytes[i])]
         IN [i \in 1..(3 * Len(bytes)) |->
                escapes[((i - 1) \div 3) + 1][((i - 1) % 3) + 1]]

\* The characters encodeURI writes for a string without lone surrogates.
RECURSIVE EncodedChars(_)
EncodedChars(units) ==
    IF units = <<>> THEN <<>>
    ELSE IF IsHighSurrogate(Head(units))
    THEN EncodeURIChar((Head(units) - 55296) * 1024 + (units[2] - 56320)
                           + 65536)
             \o EncodedChars(SubSeq(units, 3, Len(units)))
    ELSE EncodeURIChar(Head(units)) \o EncodedChars(Tail(units))

\* encodeURI(string): the encoded string, or the URIError it throws.
encodeURI(units) ==
    IF HasLoneSurrogate(units) THEN URIError
    ELSE JStr(Join(EncodedChars(units)))

\* The characters of a string as an HTML form writes them: the space as "+".
RECURSIVE FormEncodedChars(_)
FormEncodedChars(units) ==
    IF units = <<>> THEN <<>>
    ELSE (IF Head(units) = 32 THEN <<"+">> ELSE EncodeURIChar(Head(units)))
             \o FormEncodedChars(Tail(units))

\* A faulty search: the term is encoded as in a form, not as a URI.
search_FormEncoded(sitePath, term, page, visibility) ==
    LET p == Default(page, JNum(1))
        encodedTerm == Join(FormEncodedChars(term))
        url == IF Truthy(visibility)
               THEN Base \o "/sites/" \o sitePath \o "/notes/search?term="
                        \o encodedTerm \o "&page=" \o Interp(p)
                        \o "&visibility=" \o Interp(visibility)
               ELSE Base \o "/sites/" \o sitePath \o "/notes/search?term="
                        \o encodedTerm \o "&page=" \o Interp(p)
    IN Await(Fetch(url, [method |-> "GET", headers |-> headers]), "json")

search(sitePath, term, page, visibility) ==
    LET p == Default(page, JNum(1))
        encodedTerm == encodeURI(term)
        url == IF Truthy(visibility)
               THEN Base \o "/sites/" \o sitePath \o "/notes/search?term="
                        \o Interp(encodedTerm) \o "&page=" \o Interp(p)
                        \o "&visibility=" \o Interp(visibility)
               ELSE Base \o "/sites/" \o sitePath \o "/notes/search?term="
                        \o Interp(encodedTerm) \o "&page=" \o Interp(p)
    IN IF encodedTerm = URIError THEN Throw(URIError)
       ELSE Await(Fetch(url, [method |-> "GET", headers |-> headers]), "json")

(***************************************************************************)
(* The "newest" revision: the text of the current one, with the site and   *)
(* the note named by their paths where the current one takes their ids     *)
(* (the URL templates are the same), and with a latestNotes that takes a   *)
(* visibility.                                                             *)
(***************************************************************************)
latestNotesNewest(sitePath, page, visibility) ==
    LET p == Default(page, JNum(1))
        url == IF Truthy(visibility)
               THEN Base \o "/sites/" \o Interp(sitePath) \o "/notes?page="
                        \o Interp(p) \o "&visibility=" \o Interp(visibility)
               ELSE Base \o "/sites/" \o Interp(sitePath) \o "/notes?page="
                        \o Interp(p)
    IN Await(Fetch(url, [headers |-> headers]), "json")

(***************************************************************************)
(* The "legacy" revision, where it differs from the current one.  Its      *)
(* sites, update, me, reorder and read have the same text as above.        *)
(***************************************************************************)
latestNotesLegacy(siteId) ==
    Await(Fetch(Base \o "/sites/" \o Interp(siteId) \o "/notes",
                [headers |-> headers]),
          "json")

createLegacy(siteId, note) ==
    Await(Fetch(Base \o "/sites/" \o Interp(siteId) \o "/notes",
                [method |-> "POST", headers |-> headers,
                 body |-> NotePayload(note.body, note.visibility)]),
          "json")

destroyLegacy(siteId, noteId) ==
    Await(Fetch(Base \o "/sites/" \o Interp(siteId) \o "/notes/"
                    \o Interp(noteId),
                [headers |-> headers, method |-> "DELETE"]),
          "response")

siteLegacy(path) == Await(Fetch(Base \o "/" \o path, NoInit), "json")

(***************************************************************************)
(* The "validating" revision: the legacy one, with create and update       *)
(* checking the body first and defaulting the visibility to private.       *)
(***************************************************************************)
\* A faulty error class: the validation error is a plain TypeError.
CNError_AsTypeError == JError("TypeError")

CNError == JError("CNError")

\* TRUE when validateBody(body) throws.
validateBody(noteBody) == ~StartsWith(noteBody, <<"#", " ">>)

\* A faulty validating create: the visibility has no default.
createValidating_NoDefault(siteId, note) ==
    IF validateBody(note.body) THEN Throw(CNError)
    ELSE Await(Fetch(Base \o "/sites/" \o Interp(siteId) \o "/notes",
                     [method |-> "POST", headers |-> headers,
                      body |-> NotePayload(note.body, note.visibility)]),
               "json")

createValidating(siteId, note) ==
    LET visibility == Default(note.visibility, JStr("private"))
    IN IF validateBody(note.body) THEN Throw(CNError)
       ELSE Await(Fetch(Base \o "/sites/" \o Interp(siteId) \o "/notes",
                        [method |-> "POST", headers |-> headers,
                         body |-> NotePayload(note.body, visibility)]),
                  "json")

updateValidating(siteId, noteId, note) ==
    LET visibility == Default(note.visibility, JStr("private"))
    IN IF validateBody(note.body) THEN Throw(CNError)
       ELSE Await(Fetch(Base \o "/sites/" \o Interp(siteId) \o "/notes/"
                            \o Interp(noteId),
                        [method |-> "POST", headers |-> headers,
                         body |-> NotePayload(note.body, visibility)]),
                  "json")

(***************************************************************************)
(* The members site and read of the object collectedNotes returns: the     *)
(* object literal lists the module's own functions.                        *)
(***************************************************************************)
\* A faulty member read: it sends the client's headers.
clientRead_WithHeaders(sitePath, notePath, format) ==
    LET f == Default(format, JStr("json"))
        suffix == CASE f = JStr("json") -> ".json"
                    [] f = JStr("md") -> ".md"
                    [] f = JStr("txt") -> ".text"
                    [] OTHER -> ""
        known == f \in {JStr("json"), JStr("md"), JStr("txt")}
    IN IF ~known THEN Return(JUndef)
       ELSE Await(Fetch(Base \o "/" \o sitePath \o "/" \o notePath
                            \o suffix, [headers |-> headers]),
                  IF f = JStr("json") THEN "json" ELSE "text")

clientRead(sitePath, notePath, format) == read(sitePath, notePath, format)
clientSite(sitePath, page, visibility) == site(sitePath, page, visibility)
clientSiteLegacy(path) == siteLegacy(path)


(***************************************************************************)
(* The inputs the operations are called with.                              *)
(***************************************************************************)
Variants == {"current", "newest", "legacy", "validating"}
\* The revisions with the twelve members and the paginated operations.
Paginated == {"current", "newest"}
Credentials == {<<"your@email.com", "secret-token">>}

\* The invocation in view.
Slots == {1}
\* The values an argument is drawn from, given in tiers: all of them with
\* one invocation in view, those of the first MaxArgs tiers with more.
Listed(tiers) ==
    UNION {tiers[i] :
             i \in 1..(IF DOMAIN calls = Slots \/ Len(tiers) < MaxArgs
                       THEN Len(tiers) ELSE MaxArgs)}
\* site and read are called as the module's exports or as client members.
Callers == {"module", "client"}
SiteIds == {1}               \* identifiers the service gives out
NoteIds == {12}
SiteNames == {"blog"}        \* the paths the newest revision names them by
NoteNames == {"api"}
\* What names a site and a note in a call: the path in the newest revision,
\* the identifier in the others.
SiteRefs ==
    IF variant = "newest" THEN {JStr(p) : p \in SiteNames}
    ELSE {JNum(i) : i \in SiteIds}
NoteRefs ==
    IF variant = "newest" THEN {JStr(p) : p \in NoteNames}
    ELSE {JNum(i) : i \in NoteIds}
\* The optional site of create: a site or left out, or the number 0 or the
\* empty string.
SiteIdArgs ==
    Listed(<<SiteRefs \cup {JUndef},
             IF variant = "newest" THEN {JStr("")} ELSE {JNum(0)}>>)
PageArgs == Listed(<<{JUndef}>> \o [n \in 1..MaxPage |-> {JNum(n)}])
SitePaths == Listed(<<{"blog"}, {"esacrosa"}>>)
NotePaths == {"suerte"}
FormatArgs == Listed(<<{JUndef}, {JStr("md")}, {JStr("json")}, {JStr("txt")}>>)
\* What a caller without the types can hand to read: also a format read
\* does not know.
ReadFormatArgs ==
    Listed(<<{JUndef}, {JStr("md")}, {JStr("json")}, {JStr("txt")},
             {JStr("html")}>>)
LinkFormatArgs == Listed(<<{JUndef}, {JStr("html")}, {JStr("json")}>>)

\* type NoteVisibility of the loaded revision, and the part of it site takes.
\* The validating revision declares no such type: where it takes a
\* visibility it writes the union 'private' | 'public'.
NoteVisibility ==
    CASE variant = "current" ->
           {"private", "public", "public_unlisted", "site_public"}
      [] variant = "newest" ->
           {"private", "public", "public_unlisted", "public_site"}
      [] variant = "legacy" -> {"private", "public", "public_unlisted"}
      [] variant = "validating" -> {"private", "public"}
SiteVisibility ==
    IF variant = "newest" THEN {"public", "public_site"}
    ELSE {"public", "site_public"}
SiteVisibilityArgs ==
    Listed(<<{JUndef}, {JStr(v) : v \in SiteVisibility \ {"public"}},
             {JStr("public")}>>)
SearchVisibilityArgs == Listed(<<{JUndef}, {JStr("public_unlisted")}>>)
LatestVisibilityArgs == Listed(<<{JUndef}, {JStr("private")}>>)

\* Note bodies: "# T", "#T" and the empty string.
NoteBodies == Listed(<<{<<"#", " ", "T">>}, {<<"#", "T">>}, {<<>>}>>)
\* The visibility of a note content; only the validating revision lets it be
\* left out.
ContentVisibilityArgs ==
    Listed(<<{JStr("public")}, {JStr("private")},
             IF variant = "validating" THEN {JUndef} ELSE {}>>)
\* A content carrying a field the operations do not know.
TitledContent ==
    [body |-> <<"#", " ", "T">>, visibility |-> JStr("public"),
     title |-> JStr("T")]
NoteContents ==
    Listed(<<{[body |-> <<"#", " ", "T">>, visibility |-> JStr("public")]},
             {TitledContent},
             [body : NoteBodies, visibility : ContentVisibilityArgs]>>)

\* Lists of note identifiers given to reorder.
IdLists == Listed(<<{<<2, 3, 1>>}, {<<10, 2>>}, {<<>>}>>)
IdArray(ids) == JArr([i \in 1..Len(ids) |-> JNum(ids[i])])

\* Search terms, as UTF-16 code units: "a b", "a&b" and e with an acute
\* accent.
SearchTerms == Listed(<<{<<97, 32, 98>>}, {<<97, 38, 98>>}, {<<233>>}>>)

(***************************************************************************)
(* What the service may answer.                                            *)
(***************************************************************************)
fakeNote ==
    JObj(<< <<"id", JNum(1)>>,
            <<"site_id", JNum(1)>>,
            <<"user_id", JNum(1)>>,
            <<"body", JStr("# My title\nThis is a **test** note")>>,
            <<"path", JStr("suerte")>>,
            <<"headline", JStr("This is a test note")>>,
            <<"title", JStr("Suerte")>>,
            <<"created_at", JStr("2020-05-01T00:00:00.000Z")>>,
            <<"updated_at", JStr("2020-05-01T00:00:00.000Z")>>,
            <<"visibility", JStr("public")>>,
            <<"url", JStr("https://collectednotes.com/famoso/my-title")>>,
            <<"curated", JBool(FALSE)>>,
            <<"poster", JNull>>,
            <<"ordering", JNum(1)>> >>)
fakeIds == IdArray(<<2, 3, 1>>)
ServedValues == {fakeNote, fakeIds}
ServedBodies == {JSONstringify(v) : v \in ServedValues}

\* A JSON text the service writes as it likes, the members in an order of
\* its own and the numbers in any form of the grammar:
\*   {"b":1.5,"10":-1,"9":1e3}
CountsBody ==
    <<P("{"), Tok("s", "b"), P(":"), Tok("n", <<"1", ".", "5">>), P(","),
      Tok("s", "10"), P(":"), Tok("n", <<"-", "1">>), P(","),
      Tok("s", "9"), P(":"), Tok("n", <<"1", "e", "3">>), P("}")>>

Markdown == <<Tok("raw", "# My title\nThis is a **test** note")>>
EmptyBody == <<>>
NotFound == JSONstringify(JObj(<< <<"error", JStr("Not Found")>> >>))

\* The service applying a reorder as given: it answers the ids it received.
EchoIds(req) ==
    LET sent == JSONparse(req.body)
    IN IF sent.t = "object" /\ sent.v # <<>> /\ sent.v[1][1] = "ids"
       THEN {JSONstringify(sent.v[1][2])}
       ELSE {}

\* The service answering the links of a note as HTML: the URL without the
\* ".json" suffix is answered with a pre-rendered fragment.
HtmlFragment == <<Tok("raw", "<ul><li><a href=\"https://example.com\">Example</a></li></ul>")>>
LinksAsHtml(req) ==
    IF req.url \in {Base \o "/sites/" \o Interp(s) \o "/notes/"
                        \o Interp(n) \o "/links" :
                    s \in SiteRefs, n \in NoteRefs}
    THEN {HtmlFragment}
    ELSE {}

\* The service answering the public URL of a note with the note's Markdown,
\* whatever suffix was asked for.
NoteAsMarkdown(req) ==
    IF req.url \in {Base \o "/" \o s \o "/" \o n \o x :
                    s \in SitePaths, n \in NotePaths,
                    x \in {".json", ".md", ".text"}}
    THEN {Markdown}
    ELSE {}

\* Every way the fetch of a request can settle: it fails, or it resolves to
\* a response, whose body arrives whole or breaks off.
Outcomes(req) ==
    {NetworkError}
        \cup {Response(200, b) :
                b \in ServedBodies \cup {CountsBody, EmptyBody, Terminated}
                        \cup EchoIds(req) \cup LinksAsHtml(req)
                        \cup NoteAsMarkdown(req)}
        \cup {Response(404, NotFound)}

(***************************************************************************)
(* The state machine.                                                      *)
(***************************************************************************)
Idle == [state |-> "idle"]

Init ==
    /\ variant \in Variants
    /\ \E cr \in Credentials :
          /\ email = cr[1]
          /\ token = cr[2]
          /\ headers = collectedNotes(cr[1], cr[2])
    /\ calls = [c \in Slots |-> Idle]

\* A faulty call: a result already obtained for the same operation and
\* arguments is handed out again, without a request.
Start_Cached(c, op, args, effect) ==
    /\ calls[c] = Idle
    /\ calls' = [calls EXCEPT ![c] =
          IF \E d \in DOMAIN calls :
                /\ calls[d] # Idle /\ calls[d].state = "fulfilled"
                /\ calls[d].op = op /\ calls[d].args = args
          THEN LET d == CHOOSE d \in DOMAIN calls :
                           /\ calls[d] # Idle /\ calls[d].state = "fulfilled"
                           /\ calls[d].op = op /\ calls[d].args = args
               IN [state |-> "fulfilled", op |-> op, args |-> args,
                   requests |-> <<>>, then |-> "none",
                   outcome |-> JUndef, result |-> calls[d].result]
          ELSE CASE effect.kind = "throw" ->
                      [state |-> "rejected", op |-> op, args |-> args,
                       requests |-> <<>>, then |-> "none",
                       outcome |-> JUndef, result |-> effect.error]
                 [] effect.kind = "await" ->
                      [state |-> "pending", op |-> op, args |-> args,
                       requests |-> <<effect.request>>, then |-> effect.then,
                       outcome |-> JUndef, result |-> JUndef]
                 [] effect.kind = "return" ->
                      [state |-> "fulfilled", op |-> op, args |-> args,
                       requests |-> <<>>, then |-> "none",
                       outcome |-> JUndef, result |-> effect.value]]
    /\ UNCHANGED <<variant, email, token, headers>>

\* A faulty call: the init object of a request is shared, so a call made
\* while another is in flight sends that one's method, headers and body.
Start_SharedInit(c, op, args, effect) ==
    /\ calls[c] = Idle
    /\ calls' = [calls EXCEPT ![c] =
          CASE effect.kind = "throw" ->
                 [state |-> "rejected", op |-> op, args |-> args,
                  requests |-> <<>>, then |-> "none",
                  outcome |-> JUndef, result |-> effect.error]
            [] effect.kind = "await" ->
                 LET others == {d \in DOMAIN calls :
                                   calls[d] # Idle /\ calls[d].state = "pending"}
                     request ==
                         IF others = {} THEN effect.request
                         ELSE LET d == CHOOSE d \in others : TRUE
                              IN [calls[d].requests[1] EXCEPT
                                     !.url = effect.request.url]
                 IN [state |-> "pending", op |-> op, args |-> args,
                     requests |-> <<request>>, then |-> effect.then,
                     outcome |-> JUndef, result |-> JUndef]
            [] effect.kind = "return" ->
                 [state |-> "fulfilled", op |-> op, args |-> args,
                  requests |-> <<>>, then |-> "none",
                  outcome |-> JUndef, result |-> effect.value]]
    /\ UNCHANGED <<variant, email, token, headers>>

\* Operation op, called with args, runs to its first suspension.
Start(c, op, args, effect) ==
    /\ calls[c] = Idle
    /\ calls' = [calls EXCEPT ![c] =
          CASE effect.kind = "throw" ->
                 [state |-> "rejected", op |-> op, args |-> args,
                  requests |-> <<>>, then |-> "none",
                  outcome |-> JUndef, result |-> effect.error]
            [] effect.kind = "await" ->
                 [state |-> "pending", op |-> op, args |-> args,
                  requests |-> <<effect.request>>, then |-> effect.then,
                  outcome |-> JUndef, result |-> JUndef]
            [] effect.kind = "return" ->
                 [state |-> "fulfilled", op |-> op, args |-> args,
                  requests |-> <<>>, then |-> "none",
                  outcome |-> JUndef, result |-> effect.value]]
    /\ UNCHANGED <<variant, email, token, headers>>


\* The members of the client object, one action each, called when the slot
\* is free; search, body and links exist in the current and the newest
\* revision only.
CallLatestNotes(c) ==
    /\ calls[c] = Idle
    /\ \E siteId \in SiteRefs,
          page \in IF variant \in Paginated THEN PageArgs ELSE {JUndef},
          visibility \in IF variant = "newest" THEN LatestVisibilityArgs
                         ELSE {JUndef} :
           Start(c, "latestNotes",
                 [siteId |-> siteId, page |-> page, visibility |-> visibility],
                 CASE variant = "current" -> latestNotes(siteId, page)
                   [] variant = "newest" ->
                        latestNotesNewest(siteId, page, visibility)
                   [] OTHER -> latestNotesLegacy(siteId))

CallSites(c) ==
    /\ calls[c] = Idle
    /\ Start(c, "sites", <<>>, sites)

CallCreate(c) ==
    /\ calls[c] = Idle
    /\ \E note \in NoteContents,
          siteId \in IF variant \in Paginated THEN SiteIdArgs ELSE SiteRefs :
           Start(c, "create", [note |-> note, siteId |-> siteId],
                 CASE variant \in Paginated -> create(note, siteId)
                   [] variant = "legacy" -> createLegacy(siteId, note)
                   [] variant = "validating" -> createValidating(siteId, note))

CallUpdate(c) ==
    /\ calls[c] = Idle
    /\ \E siteId \in SiteRefs, noteId \in NoteRefs, note \in NoteContents :
           Start(c, "update",
                 [siteId |-> siteId, noteId |-> noteId, note |-> note],
                 IF variant = "validating"
                 THEN updateValidating(siteId, noteId, note)
                 ELSE update(siteId, noteId, note))

CallDestroy(c) ==
    /\ calls[c] = Idle
    /\ \E siteId \in SiteRefs, noteId \in NoteRefs :
           Start(c, "destroy", [siteId |-> siteId, noteId |-> noteId],
                 IF variant \in Paginated THEN destroy(siteId, noteId)
                 ELSE destroyLegacy(siteId, noteId))

CallMe(c) ==
    /\ calls[c] = Idle
    /\ Start(c, "me", <<>>, me)

CallReorder(c) ==
    /\ calls[c] = Idle
    /\ \E siteId \in SiteRefs, ids \in IdLists :
           Start(c, "reorder", [siteId |-> siteId, ids |-> ids],
                 reorder(siteId, IdArray(ids)))

CallSearch(c) ==
    /\ calls[c] = Idle
    /\ variant \in Paginated
    /\ \E sitePath \in SiteNames, term \in SearchTerms, page \in PageArgs,
          visibility \in SearchVisibilityArgs :
          Start(c, "search",
                [sitePath |-> sitePath, term |-> term, page |-> page,
                 visibility |-> visibility],
                search(sitePath, term, page, visibility))

CallBody(c) ==
    /\ calls[c] = Idle
    /\ variant \in Paginated
    /\ \E siteId \in SiteRefs, noteId \in NoteRefs :
          Start(c, "body", [siteId |-> siteId, noteId |-> noteId],
                body(siteId, noteId))

CallLinks(c) ==
    /\ calls[c] = Idle
    /\ variant \in Paginated
    /\ \E siteId \in SiteRefs, noteId \in NoteRefs,
          format \in LinkFormatArgs :
          Start(c, "links",
                [siteId |-> siteId, noteId |-> noteId, format |-> format],
                links(siteId, noteId, format))

CallSite(c) ==
    /\ calls[c] = Idle
    /\ \E via \in Callers, sitePath \in SitePaths,
          page \in IF variant \in Paginated THEN PageArgs ELSE {JUndef},
          visibility \in IF variant \in Paginated THEN SiteVisibilityArgs
                         ELSE {JUndef} :
           Start(c, "site",
                 [via |-> via, sitePath |-> sitePath, page |-> page,
                  visibility |-> visibility],
                 CASE variant \in Paginated /\ via = "module" ->
                        site(sitePath, page, visibility)
                   [] variant \in Paginated /\ via = "client" ->
                        clientSite(sitePath, page, visibility)
                   [] variant \notin Paginated /\ via = "module" ->
                        siteLegacy(sitePath)
                   [] variant \notin Paginated /\ via = "client" ->
                        clientSiteLegacy(sitePath))

CallRead(c) ==
    /\ calls[c] = Idle
    /\ \E via \in Callers, sitePath \in SitePaths, notePath \in NotePaths,
          format \in ReadFormatArgs :
           Start(c, "read",
                 [via |-> via, sitePath |-> sitePath, notePath |-> notePath,
                  format |-> format],
                 IF via = "module" THEN read(sitePath, notePath, format)
                 ELSE clientRead(sitePath, notePath, format))

\* A faulty continuation: a failed fetch is tried once more.
Resume_Retry(call, o) ==
    IF o.t = "error"
    THEN IF Len(call.requests) < 2
         THEN [call EXCEPT !.requests = Append(@, @[1])]
         ELSE [call EXCEPT !.state = "rejected", !.outcome = o, !.result = o]
    ELSE CASE call.then \in {"json", "text"} -> [call EXCEPT !.outcome = o]
           [] call.then = "response" ->
                [call EXCEPT !.state = "fulfilled", !.outcome = o,
                             !.result = o]
           [] call.then = "void" ->
                [call EXCEPT !.state = "fulfilled", !.outcome = o,
                             !.result = JUndef]

\* A faulty continuation: a response whose status is not 2xx is turned into
\* an error.
Resume_ChecksStatus(call, o) ==
    IF o.t = "error"
    THEN [call EXCEPT !.state = "rejected", !.outcome = o, !.result = o]
    ELSE IF o.status \notin 200..299
    THEN [call EXCEPT !.state = "rejected", !.outcome = o,
                      !.result = JError("HTTPError")]
    ELSE CASE call.then \in {"json", "text"} -> [call EXCEPT !.outcome = o]
           [] call.then = "response" ->
                [call EXCEPT !.state = "fulfilled", !.outcome = o,
                             !.result = o]
           [] call.then = "void" ->
                [call EXCEPT !.state = "fulfilled", !.outcome = o,
                             !.result = JUndef]

\* A faulty continuation: a failed fetch is answered with null.
Resume_Fallback(call, o) ==
    IF o.t = "error"
    THEN [call EXCEPT !.state = "fulfilled", !.outcome = o, !.result = JNull]
    ELSE CASE call.then \in {"json", "text"} -> [call EXCEPT !.outcome = o]
           [] call.then = "response" ->
                [call EXCEPT !.state = "fulfilled", !.outcome = o,
                             !.result = o]
           [] call.then = "void" ->
                [call EXCEPT !.state = "fulfilled", !.outcome = o,
                             !.result = JUndef]

\* What a suspended operation does when its fetch settles with outcome o:
\* a failure rejects it; with a response it returns, or goes on to read the
\* body and suspends again.
Resume(call, o) ==
    IF o.t = "error"
    THEN [call EXCEPT !.state = "rejected", !.outcome = o, !.result = o]
    ELSE CASE call.then \in {"json", "text"} -> [call EXCEPT !.outcome = o]
           [] call.then = "response" ->
                [call EXCEPT !.state = "fulfilled", !.outcome = o,
                             !.result = o]
           [] call.then = "void" ->
                [call EXCEPT !.state = "fulfilled", !.outcome = o,
                             !.result = JUndef]

\* A faulty reading: the JSON text of the response is returned as it is,
\* not parsed.
ResumeBody_RawText(call) ==
    IF call.outcome.body = Terminated
    THEN [call EXCEPT !.state = "rejected", !.result = StreamError]
    ELSE [call EXCEPT !.state = "fulfilled",
                      !.result = JText(call.outcome.body)]

\* A faulty reading: a body that is not JSON gives null.
ResumeBody_LenientJson(call) ==
    IF call.outcome.body = Terminated
    THEN [call EXCEPT !.state = "rejected", !.result = StreamError]
    ELSE CASE call.then = "json" ->
                LET parsed == JSONparse(call.outcome.body)
                IN [call EXCEPT
                      !.state = "fulfilled",
                      !.result = IF parsed = SyntaxError THEN JNull
                                 ELSE parsed]
           [] call.then = "text" ->
                [call EXCEPT !.state = "fulfilled",
                             !.result = JText(call.outcome.body)]

\* What an operation suspended on response.json() or response.text() does
\* when the reading of the body ends: a body that broke off rejects it with
\* the stream's error, a whole body is parsed or returned as text.
ResumeBody(call) ==
    IF call.outcome.body = Terminated
    THEN [call EXCEPT !.state = "rejected", !.result = StreamError]
    ELSE CASE call.then = "json" ->
                LET parsed == JSONparse(call.outcome.body)
                IN [call EXCEPT
                      !.state = IF parsed = SyntaxError THEN "rejected"
                                ELSE "fulfilled",
                      !.result = parsed]
           [] call.then = "text" ->
                [call EXCEPT !.state = "fulfilled",
                             !.result = JText(call.outcome.body)]

\* The transport settles the fetch of the operation in slot c.
Respond(c) ==
    /\ calls[c].state = "pending"
    /\ calls[c].outcome = JUndef
    /\ \E o \in Outcomes(calls[c].requests[1]) :
          calls' = [calls EXCEPT ![c] = Resume(@, o)]
    /\ UNCHANGED <<variant, email, token, headers>>

\* The reading of the body of the response in slot c ends.
Deliver(c) ==
    /\ calls[c].state = "pending"
    /\ calls[c].outcome # JUndef
    /\ calls' = [calls EXCEPT ![c] = ResumeBody(@)]
    /\ UNCHANGED <<variant, email, token, headers>>

\* The caller drops a settled promise: its slot can take another operation.
Retire(c) ==
    /\ calls[c].state \in {"fulfilled", "rejected"}
    /\ calls' = [calls EXCEPT ![c] = Idle]
    /\ UNCHANGED <<variant, email, token, headers>>

Next ==
    \E c \in Slots :
        \/ CallLatestNotes(c)
        \/ CallSites(c)
        \/ CallCreate(c)
        \/ CallUpdate(c)
        \/ CallDestroy(c)
        \/ CallMe(c)
        \/ CallReorder(c)
        \/ CallSearch(c)
        \/ CallBody(c)
        \/ CallLinks(c)
        \/ CallSite(c)
        \/ CallRead(c)
        \/ Respond(c)
        \/ Deliver(c)
        \/ Retire(c)

Spec == Init /\ [][Next]_vars

(***************************************************************************)
(* Two invocations in view on one client of the current revision, of any   *)
(* of its operations, one after the other or overlapping, their fetches    *)
(* settling and their bodies arriving in any order.  A settled invocation  *)
(* stays in view until the caller drops it.  Each argument is drawn from   *)
(* the first MaxArgs tiers of its values.                                  *)
(***************************************************************************)
TwoSlots == {1, 2}

InitTwo ==
    /\ variant = "current"
    /\ \E cr \in Credentials :
          /\ email = cr[1]
          /\ token = cr[2]
          /\ headers = collectedNotes(cr[1], cr[2])
    /\ calls = [c \in TwoSlots |-> Idle]

NextTwo ==
    \E c \in TwoSlots :
        \/ CallLatestNotes(c)
        \/ CallSites(c)
        \/ CallCreate(c)
        \/ CallUpdate(c)
        \/ CallDestroy(c)
        \/ CallMe(c)
        \/ CallReorder(c)
        \/ CallSearch(c)
        \/ CallBody(c)
        \/ CallLinks(c)
        \/ CallSite(c)
        \/ CallRead(c)
        \/ Respond(c)
        \/ Deliver(c)
        \/ Retire(c)

SpecTwo == InitTwo /\ [][NextTwo]_vars

(***************************************************************************)
(* Two clients made by collectedNotes with different credentials.  The     *)
(* operations of a client see the headers of the call of collectedNotes    *)
(* that made them: email, token and headers are those of the client whose  *)
(* code runs, slot k holds the invocation made on client k.  site and read *)
(* send no headers and are left to the other specifications.  Each         *)
(* argument is drawn from the first MaxArgs tiers of its values.           *)
(***************************************************************************)
ClientCredentials ==
    << <<"your@email.com", "secret-token">>,
       <<"other@email.com", "other-token">> >>

\* The variables in scope are those of client k.
InScope(k) ==
    /\ email = ClientCredentials[k][1]
    /\ token = ClientCredentials[k][2]

\* Faulty clients: the headers object is one for the module, so the
\* operations of a client go on with the headers they find.
Enter_SharedHeaders(k) ==
    /\ ~InScope(k)
    /\ email' = ClientCredentials[k][1]
    /\ token' = ClientCredentials[k][2]
    /\ UNCHANGED <<variant, headers, calls>>

\* Control passes to the code of client k, with the variables it closed over.
Enter(k) ==
    /\ ~InScope(k)
    /\ email' = ClientCredentials[k][1]
    /\ token' = ClientCredentials[k][2]
    /\ headers' = collectedNotes(ClientCredentials[k][1],
                                 ClientCredentials[k][2])
    /\ UNCHANGED <<variant, calls>>

InitClients ==
    /\ variant = "current"
    /\ InScope(1)
    /\ headers = collectedNotes(ClientCredentials[1][1],
                                ClientCredentials[1][2])
    /\ calls = [c \in TwoSlots |-> Idle]

NextClients ==
    \E k \in TwoSlots :
        \/ Enter(k)
        \/ InScope(k) /\ CallLatestNotes(k)
        \/ InScope(k) /\ CallSites(k)
        \/ InScope(k) /\ CallCreate(k)
        \/ InScope(k) /\ CallUpdate(k)
        \/ InScope(k) /\ CallDestroy(k)
        \/ InScope(k) /\ CallMe(k)
        \/ InScope(k) /\ CallReorder(k)
        \/ InScope(k) /\ CallSearch(k)
        \/ InScope(k) /\ CallBody(k)
        \/ InScope(k) /\ CallLinks(k)
        \/ Respond(k)
        \/ Deliver(k)
        \/ Retire(k)

SpecClients == InitClients /\ [][NextClients]_vars

(***************************************************************************)
(* Properties.                                                             *)
(***************************************************************************)
IsLive(c) == calls[c] # Idle
Settled(c) == IsLive(c) /\ calls[c].state \in {"fulfilled", "rejected"}
\* The fetch of the operation in slot c resolved to a Response.
Answered(c) == Settled(c) /\ calls[c].outcome.t = "response"
IsOp(c, ops) == IsLive(c) /\ calls[c].op \in ops
\* The body of that Response arrived whole.
Delivered(c) == Answered(c) /\ calls[c].outcome.body # Terminated

\* How the suspended invocation call ends when its fetch settles with the
\* outcome o: at once, or after the body of the response has been read.
Settlement(call, o) ==
    IF Resume(call, o).state = "pending" THEN ResumeBody(Resume(call, o))
    ELSE Resume(call, o)

\* C1: create and update, called with a note body that does not start with
\* the two characters "# ", reject with the validation error and call fetch
\* zero times.
C1_ValidationBeforeFetch ==
    \A c \in Slots :
        (/\ IsOp(c, {"create", "update"})
         /\ ~StartsWith(calls[c].args.note.body, <<"#", " ">>))
        => /\ calls[c].state = "rejected"
           /\ calls[c].result = CNError
           /\ calls[c].requests = <<>>

\* C2: destroy resolves to the transport's response object itself, whatever
\* the response body is, and never to undefined.
C2_DestroyResolvesToResponse ==
    \A c \in Slots :
        (IsOp(c, {"destroy"}) /\ Answered(c))
        => /\ calls[c].state = "fulfilled"
           /\ calls[c].result = calls[c].outcome

\* The read calls asking for JSON: format "json" or no format argument.
ReadsJson(c) ==
    /\ IsOp(c, {"read"})
    /\ calls[c].args.format \in {JUndef, JStr("json")}

\* The members the text CountsBody gives, as written: b is 1.5, 10 is -1 and
\* 9 is 1000.
CountsMembers ==
    {<<"b", Number(FALSE, <<1, 5>>, 1)>>, <<"10", Number(TRUE, <<1>>, 1)>>,
     <<"9", Number(FALSE, <<1>>, 4)>>}

\* The object x has the members CountsBody gives, each once.
IsCounts(x) ==
    /\ x.t = "object"
    /\ Len(x.v) = Cardinality(CountsMembers)
    /\ {x.v[i] : i \in 1..Len(x.v)} = CountsMembers

\* C3: read with format json, or with no format, resolves to a value equal to
\* the JSON value the service returned: for every value v the service serves,
\* when the response body is the JSON text of v the result is v; and for a
\* text the service writes in an order of its own, the result has the
\* members of the text, none added, removed or changed.
C3_ReadJsonRoundTrip ==
    \A c \in Slots :
        (ReadsJson(c) /\ Answered(c))
        => /\ \A v \in ServedValues :
                 calls[c].outcome.body = JSONstringify(v)
                 => /\ calls[c].state = "fulfilled"
                    /\ calls[c].result = v
           /\ calls[c].outcome.body = CountsBody
              => /\ calls[c].state = "fulfilled"
                 /\ IsCounts(calls[c].result)

C3_Witness ==
    \E c \in Slots :
        /\ ReadsJson(c) /\ Answered(c)
        /\ calls[c].args.format = JUndef
        /\ calls[c].outcome.body = JSONstringify(fakeNote)
        /\ calls[c].result = fakeNote

\* The read calls asking for text: format "md" or "txt".
ReadsText(c) ==
    /\ IsOp(c, {"read"})
    /\ calls[c].args.format \in {JStr("md"), JStr("txt")}

\* C4: read with format md or txt resolves to the response body as text,
\* exactly as the transport delivered it: it is not parsed as JSON (also when
\* it is JSON text) and not changed.
C4_ReadTextUnmodified ==
    \A c \in Slots :
        (ReadsText(c) /\ Delivered(c))
        => /\ calls[c].state = "fulfilled"
           /\ calls[c].result = JText(calls[c].outcome.body)

C4_Witness ==
    \E c \in Slots :
        /\ ReadsText(c) /\ Delivered(c)
        /\ calls[c].args.format = JStr("txt")
        /\ calls[c].outcome.body = JSONstringify(fakeNote)
        /\ calls[c].result = JText(JSONstringify(fakeNote))

\* The file-extension suffix the service expects for a read format.
ReadSuffix(format) ==
    CASE format = JStr("md") -> ".md"
      [] format = JStr("txt") -> ".text"
      [] OTHER -> ".json"

\* C5: read(sitePath, notePath, format) requests
\* https://collectednotes.com/{sitePath}/{notePath} followed by ".json" for
\* json (and for no format), ".md" for md and ".text" for txt; the request is
\* the only one of the call, a GET, and carries no Authorization header.
C5_ReadRequest ==
    \A c \in Slots :
        (IsOp(c, {"read"}) /\ calls[c].args.format \in FormatArgs)
        => /\ Len(calls[c].requests) = 1
           /\ calls[c].requests[1].url =
                  "https://collectednotes.com/" \o calls[c].args.sitePath
                      \o "/" \o calls[c].args.notePath
                      \o ReadSuffix(calls[c].args.format)
           /\ calls[c].requests[1].method = "GET"
           /\ ~HasHeader(calls[c].requests[1], "Authorization")

C5_Witness ==
    \E c \in Slots :
        /\ IsOp(c, {"read"})
        /\ calls[c].args.format = JStr("txt")
        /\ calls[c].requests[1].url
               = "https://collectednotes.com/esacrosa/suerte.text"

\* The site calls given only the site path.
SiteWithPathOnly(c) ==
    /\ IsOp(c, {"site"})
    /\ calls[c].args.page = JUndef
    /\ calls[c].args.visibility = JUndef

\* C6: site(sitePath), called with only the site path, issues a GET to
\* {sitePath}.json with the query parameters page=1 and visibility=public,
\* the request of site(sitePath, 1, "public"), in every revision of site.
C6_SiteDefaults ==
    \A c \in Slots :
        SiteWithPathOnly(c)
        => /\ Len(calls[c].requests) = 1
           /\ calls[c].requests[1].url =
                  "https://collectednotes.com/" \o calls[c].args.sitePath
                      \o ".json?page=1&visibility=public"
           /\ calls[c].requests[1].method = "GET"

\* The URL of a site request for a path, a page and a visibility.
SiteUrl(sitePath, page, visibility) ==
    "https://collectednotes.com/" \o sitePath \o ".json?page="
        \o Interp(page) \o "&visibility=" \o Interp(visibility)

\* C7: the visibility values site accepts are exactly "public" and
\* "public_site", two members of the four-valued visibility enumeration
\* {private, public, public_unlisted, public_site}, and the visibility query
\* parameter of every site request is one of those two strings.
C7_SiteVisibilityValues ==
    \A c \in Slots :
        (variant \in Paginated /\ IsOp(c, {"site"}))
        => LET given == Default(calls[c].args.visibility, JStr("public"))
               page == Default(calls[c].args.page, JNum(1))
           IN /\ given.v \in {"public", "public_site"} \cap NoteVisibility
              /\ calls[c].requests[1].url
                     = SiteUrl(calls[c].args.sitePath, page, given)

\* What reorder is given, as the JSON value of its payload.
ReorderPayload(ids) == JObj(<< <<"ids", IdArray(ids)>> >>)

\* C8: reorder(site, ids) sends the identifiers in the given order and
\* resolves to the identifier sequence the service returns; when the service
\* answers with the order it received, the result equals the input sequence.
C8_ReorderRoundTrip ==
    \A c \in Slots :
        IsOp(c, {"reorder"})
        => /\ Len(calls[c].requests) = 1
           /\ JSONparse(calls[c].requests[1].body)
                  = ReorderPayload(calls[c].args.ids)
           /\ Answered(c)
              => /\ \A ids \in IdLists :
                      calls[c].outcome.body = JSONstringify(IdArray(ids))
                      => /\ calls[c].state = "fulfilled"
                         /\ calls[c].result = IdArray(ids)
                 /\ calls[c].outcome.body
                        = JSONstringify(IdArray(calls[c].args.ids))
                    => calls[c].result = IdArray(calls[c].args.ids)

\* A reorder of <<10, 2>> that the service answered as given, while it could
\* have answered <<2, 3, 1>>.
C8_Witness ==
    \E c \in Slots :
        /\ IsOp(c, {"reorder"}) /\ Answered(c)
        /\ calls[c].args.ids = <<10, 2>>
        /\ calls[c].outcome.body = JSONstringify(IdArray(<<10, 2>>))
        /\ calls[c].result = IdArray(<<10, 2>>)

\* The JSON value { note: { body, visibility } } of a note content.
NoteObject(note) ==
    JObj(<< <<"note", JObj(<< <<"body", JStr(Join(note.body))>>,
                              <<"visibility", note.visibility>> >>)>> >>)

\* The create calls that get past the body check of the validating revision.
CreatePasses(c) ==
    /\ IsOp(c, {"create"})
    /\ variant = "validating"
       => StartsWith(calls[c].args.note.body, <<"#", " ">>)

\* C9: create(content, site) POSTs to /sites/{site}/notes when a site is
\* given (the identifier or the path of a site; the number 0 and the empty
\* string are none) and to /notes/add when no site is given; the payload is
\* the content's body and visibility.
C9_CreateEndpoint ==
    \A c \in Slots :
        CreatePasses(c)
        => LET call == calls[c]
               req == call.requests[1]
           IN /\ Len(call.requests) = 1
              /\ req.method = "POST"
              /\ call.args.siteId = JUndef
                 => req.url = "https://collectednotes.com/notes/add"
              /\ \A s \in SiteRefs :
                    call.args.siteId = s
                    => req.url = "https://collectednotes.com/sites/"
                                     \o Interp(s) \o "/notes"
              /\ call.args.note.visibility # JUndef
                 => JSONparse(req.body) = NoteObject(call.args.note)
              /\ JSONparse(req.body).v[1][2].v[1]
                     = <<"body", JStr(Join(call.args.note.body))>>

\* A create without a site, sent to the default endpoint.
C9_Witness ==
    \E c \in Slots :
        /\ IsOp(c, {"create"})
        /\ variant = "current"
        /\ calls[c].args.siteId = JUndef
        /\ calls[c].args.note.visibility = JStr("private")
        /\ calls[c].requests[1].url = "https://collectednotes.com/notes/add"

\* The operations of the client that use the client's credentials.
AuthenticatedOps ==
    {"sites", "latestNotes", "create", "update", "destroy", "me", "reorder",
     "search", "body", "links"}

\* C10: every request of an authenticated operation carries the header
\* Authorization equal to the email, one space and the token given to
\* collectedNotes, and Accept and Content-Type application/json; in every
\* reachable state, so after any sequence of earlier operations.
C10_AuthorizationHeader ==
    \A c \in Slots :
        IsOp(c, AuthenticatedOps)
        => \A i \in 1..Len(calls[c].requests) :
              LET req == calls[c].requests[i]
              IN /\ HeaderOf(req, "Authorization") = email \o " " \o token
                 /\ HeaderOf(req, "Accept") = "application/json"
                 /\ HeaderOf(req, "Content-Type") = "application/json"
                 /\ Cardinality(req.headers) = 3

C10_Witness ==
    \E c \in Slots :
        /\ IsOp(c, {"search"})
        /\ Len(calls[c].requests) = 1
        /\ HeaderOf(calls[c].requests[1], "Authorization")
               = "your@email.com secret-token"

\* What the exported site does for the arguments of the call in slot c.
ExportedSite(c) ==
    IF variant \in Paginated
    THEN site(calls[c].args.sitePath, calls[c].args.page,
              calls[c].args.visibility)
    ELSE siteLegacy(calls[c].args.sitePath)

\* What the exported read does for the arguments of the call in slot c.
ExportedRead(c) ==
    read(calls[c].args.sitePath, calls[c].args.notePath, calls[c].args.format)

\* The call in slot c has issued the request of the effect e and, once
\* settled, has the result e gives for the same outcome.
BehavesAs(c, e) ==
    /\ calls[c].requests = <<e.request>>
    /\ ~HasHeader(calls[c].requests[1], "Authorization")
    /\ Settled(c)
       => LET alone == Settlement([state |-> "pending", op |-> calls[c].op,
                                   args |-> calls[c].args,
                                   requests |-> <<e.request>>,
                                   then |-> e.then,
                                   outcome |-> JUndef, result |-> JUndef],
                                  calls[c].outcome)
          IN /\ calls[c].state = alone.state
             /\ calls[c].result = alone.result

\* C11: the members read and site of the client object are the exported read
\* and site: called with the same arguments they issue the same request (same
\* URL, no Authorization header) and resolve to the same result.
C11_MembersAreExports ==
    \A c \in Slots :
        /\ (IsOp(c, {"site"}) /\ calls[c].args.via = "client")
           => BehavesAs(c, ExportedSite(c))
        /\ (IsOp(c, {"read"}) /\ calls[c].args.via = "client"
                /\ calls[c].args.format \in FormatArgs)
           => BehavesAs(c, ExportedRead(c))

\* A member read of the note as JSON, answered with the note.
C11_Witness ==
    \E c \in Slots :
        /\ IsOp(c, {"read"}) /\ calls[c].args.via = "client"
        /\ Answered(c)
        /\ calls[c].requests[1].url
               = "https://collectednotes.com/blog/suerte.json"
        /\ calls[c].result = fakeNote

\* The invocation in slot c passed the client-side checks: it was not
\* rejected before any request, and a read was given a format read knows.
PassedValidation(c) ==
    /\ IsLive(c)
    /\ ~(calls[c].state = "rejected" /\ calls[c].outcome = JUndef)
    /\ calls[c].op = "read" => calls[c].args.format \in FormatArgs

\* C12: every invocation that passes client-side validation issues exactly
\* one request, whether the request succeeds or fails; while the invocation
\* runs and after it has settled its list of requests never changes (no
\* retry, no batch, no request after the result).
C12_OneRequestPerInvocation ==
    /\ [](\A c \in Slots : PassedValidation(c) => Len(calls[c].requests) = 1)
    /\ [][\A c \in Slots :
            /\ (IsLive(c) /\ calls'[c] # Idle)
               => calls'[c].requests = calls[c].requests
            /\ Settled(c) => calls'[c] \in {calls[c], Idle}]_vars

\* An update whose only request failed at the transport.
C12_Witness ==
    \E c \in Slots :
        /\ IsOp(c, {"update"}) /\ Settled(c)
        /\ calls[c].outcome = NetworkError
        /\ Len(calls[c].requests) = 1

\* C13: when the fetch of an operation fails, the operation rejects with
\* that same error, unchanged, having issued that one request only: no retry,
\* no fallback value.  The same holds when the transport fails later, while
\* the operation reads the body of the response: it rejects with the error
\* of the stream.
C13_TransportFailurePropagates ==
    \A c \in Slots :
        /\ (/\ IsLive(c) /\ calls[c].state # "pending"
             /\ calls[c].outcome.t = "error")
           => /\ calls[c].state = "rejected"
              /\ calls[c].result = calls[c].outcome
              /\ Len(calls[c].requests) = 1
        /\ (/\ Answered(c) /\ ~Delivered(c)
             /\ calls[c].then \in {"json", "text"})
           => /\ calls[c].state = "rejected"
              /\ calls[c].result = StreamError
              /\ Len(calls[c].requests) = 1

\* A site call rejected with the transport's error.
C13_Witness ==
    \E c \in Slots :
        /\ IsOp(c, {"site"})
        /\ calls[c].state = "rejected"
        /\ calls[c].outcome = NetworkError
        /\ calls[c].result = NetworkError

\* C14: links(site, note, "html") resolves to the HTML fragment the service
\* returned, as a string, and links(site, note, "json") or links(site, note)
\* resolves to the structured list the service returned: the format argument
\* decides the shape of the result.
C14_LinksShapeByFormat ==
    \A c \in Slots :
        (IsOp(c, {"links"}) /\ Answered(c))
        => /\ (calls[c].args.format = JStr("html")
                  /\ calls[c].outcome.body = HtmlFragment)
              => /\ calls[c].state = "fulfilled"
                 /\ calls[c].result = JText(HtmlFragment)
           /\ (calls[c].args.format \in {JUndef, JStr("json")}
                  /\ calls[c].outcome.body = JSONstringify(fakeIds))
              => /\ calls[c].state = "fulfilled"
                 /\ calls[c].result = fakeIds

\* The URI encoding of the search terms "a b", "a&b" and e with an acute
\* accent: a space becomes %20, the letters and the reserved character &
\* stay, a character outside ASCII becomes the escapes of its UTF-8 bytes.
UriEncoded(term) ==
    CASE term = <<97, 32, 98>> -> "a%20b"
      [] term = <<97, 38, 98>> -> "a&b"
      [] term = <<233>> -> "%C3%A9"

\* C15: search(site, term, page, visibility) issues one GET whose URL carries
\* the URI-encoded term and the page, 1 when the page is omitted; the
\* visibility query parameter is there exactly when a visibility is given,
\* and then equals it.
C15_SearchRequest ==
    \A c \in Slots :
        IsOp(c, {"search"})
        => LET a == calls[c].args
               page == Default(a.page, JNum(1))
               upToPage == "https://collectednotes.com/sites/" \o a.sitePath
                               \o "/notes/search?term=" \o UriEncoded(a.term)
                               \o "&page=" \o Interp(page)
           IN /\ Len(calls[c].requests) = 1
              /\ calls[c].requests[1].method = "GET"
              /\ a.visibility = JUndef
                 => calls[c].requests[1].url = upToPage
              /\ a.visibility # JUndef
                 => calls[c].requests[1].url
                        = upToPage \o "&visibility=" \o a.visibility.v

\* A search for "a b" with neither page nor visibility.
C15_Witness ==
    \E c \in Slots :
        /\ IsOp(c, {"search"})
        /\ calls[c].args.term = <<97, 32, 98>>
        /\ calls[c].args.page = JUndef
        /\ calls[c].args.visibility = JUndef
        /\ calls[c].requests[1].url
               = "https://collectednotes.com/sites/blog/notes/search?term=a%20b&page=1"

\* The operations that read an entity of the service.
ReadOps == {"read", "site", "latestNotes", "sites"}

\* What the settled invocation in slot c resolves to when its result comes
\* from the outcome of its own fetch and from nothing else.
OwnResult(c) ==
    Settlement([calls[c] EXCEPT !.state = "pending", !.outcome = JUndef,
                                !.result = JUndef],
               calls[c].outcome)

\* Slots c and d hold two calls of the same read operation with the same
\* arguments.
SameRead(c, d) ==
    /\ c # d
    /\ IsOp(c, ReadOps) /\ IsOp(d, ReadOps)
    /\ calls[c].op = calls[d].op
    /\ calls[c].args = calls[d].args
    /\ calls[c].op = "read" => calls[c].args.format \in FormatArgs

\* C16: nothing is cached: of two calls of the same read operation with the
\* same arguments, each issues its own request and each resolves to the
\* response of its own request, whatever the other one obtained; a call
\* made after the other has settled still suspends on a request of its own.
C16_NoCache ==
    /\ [](\A c \in DOMAIN calls, d \in DOMAIN calls :
            SameRead(c, d)
            => /\ Len(calls[c].requests) = 1
               /\ Len(calls[d].requests) = 1
               /\ Settled(c)
                  => /\ calls[c].outcome # JUndef
                     /\ LET own == OwnResult(c)
                        IN /\ calls[c].state = own.state
                           /\ calls[c].result = own.result)
    /\ [][\A c \in DOMAIN calls, d \in DOMAIN calls :
            (/\ c # d
             /\ Settled(d) /\ calls[d].op \in ReadOps
             /\ calls[d].op = "read" => calls[d].args.format \in FormatArgs
             /\ calls[c] = Idle /\ calls'[c] # Idle
             /\ calls'[c].op = calls[d].op
             /\ calls'[c].args = calls[d].args)
            => /\ calls'[c].state = "pending"
               /\ Len(calls'[c].requests) = 1
               /\ calls'[d] = calls[d]]_vars

\* Two reads of the same note: the first obtained the note, the second,
\* the entity having changed, obtained something else.
C16_Witness ==
    /\ IsOp(1, {"read"}) /\ IsOp(2, {"read"})
    /\ calls[1].args = calls[2].args
    /\ calls[1].args.format = JUndef
    /\ Answered(1) /\ Answered(2)
    /\ calls[1].result = fakeNote
    /\ calls[2].result = fakeIds

\* What the operation of the invocation in slot c does with its arguments
\* when it runs alone on the client.
Alone(c) ==
    LET a == calls[c].args
        op == calls[c].op
    IN CASE op = "latestNotes" -> latestNotes(a.siteId, a.page)
         [] op = "sites" -> sites
         [] op = "create" -> create(a.note, a.siteId)
         [] op = "update" -> update(a.siteId, a.noteId, a.note)
         [] op = "destroy" -> destroy(a.siteId, a.noteId)
         [] op = "me" -> me
         [] op = "reorder" -> reorder(a.siteId, IdArray(a.ids))
         [] op = "search" -> search(a.sitePath, a.term, a.page, a.visibility)
         [] op = "body" -> body(a.siteId, a.noteId)
         [] op = "links" -> links(a.siteId, a.noteId, a.format)
         [] op = "site" -> site(a.sitePath, a.page, a.visibility)
         [] op = "read" -> read(a.sitePath, a.notePath, a.format)

\* C17: with several operations in flight and their responses arriving in
\* any order, the URL, headers and body of the request of each are those it
\* has when run alone, each resolves to the response of its own request, and
\* no step of one changes the headers the client holds or the other
\* invocation.
C17_ConcurrentIndependence ==
    /\ [](\A c \in DOMAIN calls :
            IsLive(c)
            => /\ LET alone == Alone(c)
                  IN calls[c].requests
                         = IF alone.kind = "await" THEN <<alone.request>>
                           ELSE <<>>
               /\ (Settled(c) /\ calls[c].requests # <<>>)
                  => LET own == OwnResult(c)
                     IN /\ calls[c].state = own.state
                        /\ calls[c].result = own.result)
    /\ [][/\ headers' = headers
          /\ \A c \in DOMAIN calls, d \in DOMAIN calls :
                (c # d /\ calls'[c] # calls[c]) => calls'[d] = calls[d]]_vars

\* A reorder and a read in flight together, each with its own request.
C17_Witness ==
    /\ IsOp(1, {"reorder"}) /\ calls[1].state = "pending"
    /\ calls[1].args.ids = <<2, 3, 1>>
    /\ IsOp(2, {"read"}) /\ calls[2].state = "pending"
    /\ calls[2].requests[1].body = <<>>
    /\ calls[2].requests[1].headers = {}
    /\ calls[1].requests[1].headers = headers

\* The operations that return the parsed JSON of the response: all but
\* destroy and the text forms of read.
ReturnsJson(c) ==
    /\ IsLive(c)
    /\ calls[c].op # "destroy"
    /\ calls[c].op = "read" => calls[c].args.format \in {JUndef, JStr("json")}

\* The settlement of the invocation in slot c had the status of its response
\* been 200.
As2xx(c) ==
    Settlement([calls[c] EXCEPT !.state = "pending", !.outcome = JUndef,
                                !.result = JUndef],
               [calls[c].outcome EXCEPT !.status = 200])

\* C18: no operation looks at the HTTP status: answered with a non-2xx
\* response whose body is valid JSON, an operation that returns JSON resolves
\* to the parsed body instead of failing, and destroy resolves for a non-2xx
\* response as it does for a 2xx one (to nothing, or to the response itself
\* in the revisions that return it).
C18_StatusNotInspected ==
    \A c \in Slots :
        (Answered(c) /\ calls[c].outcome.status \notin 200..299)
        => /\ (ReturnsJson(c) /\ JSONparse(calls[c].outcome.body) # SyntaxError)
              => /\ calls[c].state = "fulfilled"
                 /\ calls[c].result = JSONparse(calls[c].outcome.body)
           /\ calls[c].op = "destroy"
              => /\ calls[c].state = "fulfilled"
                 /\ calls[c].state = As2xx(c).state
                 /\ \/ calls[c].result = As2xx(c).result
                    \/ /\ As2xx(c).result.t = "response"
                       /\ calls[c].result = calls[c].outcome

\* me answered 404 with a JSON error body, resolved to that body.
C18_Witness ==
    \E c \in Slots :
        /\ IsOp(c, {"me"}) /\ Answered(c)
        /\ calls[c].outcome = Response(404, NotFound)
        /\ calls[c].state = "fulfilled"
        /\ calls[c].result = JObj(<< <<"error", JStr("Not Found")>> >>)

\* The create and update calls that reached their request, with a content
\* that states its visibility.
SendsNote(c) ==
    /\ IsOp(c, {"create", "update"})
    /\ calls[c].requests # <<>>
    /\ calls[c].args.note.visibility # JUndef

\* C19: the request body of create and of update is the JSON encoding of
\* {note: {body, visibility}} with exactly those two fields of the content,
\* any other field of the content left out; the request body of reorder is
\* the JSON encoding of {ids: the given sequence}.
C19_PayloadFields ==
    \A c \in Slots :
        /\ SendsNote(c)
           => LET sent == JSONparse(calls[c].requests[1].body)
                  note == calls[c].args.note
              IN /\ calls[c].requests[1].body
                        = JSONstringify(NoteObject(note))
                 /\ sent.t = "object" /\ Len(sent.v) = 1
                 /\ sent.v[1][1] = "note"
                 /\ sent.v[1][2].v = << <<"body", JStr(Join(note.body))>>,
                                        <<"visibility", note.visibility>> >>
        /\ IsOp(c, {"reorder"})
           => calls[c].requests[1].body
                  = JSONstringify(ReorderPayload(calls[c].args.ids))

\* A create of a content that also has a title: two fields are sent.
C19_Witness ==
    \E c \in Slots :
        /\ IsOp(c, {"create"})
        /\ variant = "current"
        /\ calls[c].args.note = TitledContent
        /\ JSONparse(calls[c].requests[1].body)
               = JObj(<< <<"note", JObj(<< <<"body", JStr("# T")>>,
                                           <<"visibility", JStr("public")>> >>)>> >>)

\* C20: create and update throw a CNError when the body does not start with
\* "#", and throw no CNError when the body does start with "#".
C20_CNErrorOnMissingHash ==
    \A c \in Slots :
        IsOp(c, {"create", "update"})
        => /\ ~StartsWith(calls[c].args.note.body, <<"#">>)
              => /\ calls[c].state = "rejected"
                 /\ calls[c].result = CNError
           /\ StartsWith(calls[c].args.note.body, <<"#">>)
              => calls[c].result # CNError

\* C21: in the revision that validates the body, the error of the validation
\* is of a kind of its own, CNError: a rejected create or update tells by the
\* error alone whether the body was refused (CNError, no request), the
\* transport failed (the error of the fetch, or of the stream of the body) or
\* the response body was not JSON (the parse failure).
C21_ValidationErrorDistinct ==
    \A c \in Slots :
        (/\ variant = "validating"
         /\ IsOp(c, {"create", "update"})
         /\ calls[c].state = "rejected")
        => /\ calls[c].result
                  \in {CNError, NetworkError, StreamError, SyntaxError}
           /\ calls[c].result = CNError <=> calls[c].requests = <<>>
           /\ calls[c].result = NetworkError <=> calls[c].outcome.t = "error"
           /\ calls[c].result = StreamError
                 <=> (Answered(c) /\ ~Delivered(c))
           /\ calls[c].result = SyntaxError <=> Delivered(c)
           /\ CNError.v \notin {NetworkError.v, StreamError.v, SyntaxError.v}

\* An update refused for its body "#T": CNError and no request.
C21_Witness ==
    \E c \in Slots :
        /\ variant = "validating"
        /\ IsOp(c, {"update"})
        /\ calls[c].args.note.body = <<"#", "T">>
        /\ calls[c].state = "rejected"
        /\ calls[c].result = CNError
        /\ calls[c].requests = <<>>

\* The client operations that return JSON, and site.
JsonOps ==
    {"sites", "latestNotes", "create", "update", "me", "reorder", "search",
     "body", "site"}

\* The JSON values the service answers with: the served ones and the ids a
\* reorder was given.
AnsweredValues == ServedValues \cup {IdArray(ids) : ids \in IdLists}

\* C22: sites, latestNotes, create, update, me, reorder, search, body and
\* site resolve to the JSON value of the response body of their own request,
\* untransformed, whenever the request succeeds with a body that is valid
\* JSON: for every value v, a 200 response whose body is the JSON text of v
\* gives the result v.
C22_JsonResultIsBody ==
    \A c \in Slots :
        (/\ IsOp(c, JsonOps) /\ Answered(c)
         /\ calls[c].outcome.status = 200)
        => /\ \A v \in AnsweredValues :
                 calls[c].outcome.body = JSONstringify(v)
                 => /\ calls[c].state = "fulfilled"
                    /\ calls[c].result = v
           /\ calls[c].outcome.body = CountsBody
              => /\ calls[c].state = "fulfilled"
                 /\ IsCounts(calls[c].result)

\* A create answered with the note the service made of it.
C22_Witness ==
    \E c \in Slots :
        /\ IsOp(c, {"create"}) /\ Answered(c)
        /\ calls[c].outcome = Response(200, JSONstringify(fakeNote))
        /\ calls[c].result = fakeNote

\* The response bodies that are not JSON texts.
NotJson == {Markdown, EmptyBody, HtmlFragment}

\* C23: an operation that expects JSON (read as json, site and every client
\* operation that returns JSON) rejects with the parse failure when the body
\* of the response is not valid JSON; it resolves neither to the raw text
\* nor to a default value.
C23_ParseFailure ==
    \A c \in Slots :
        (/\ ReturnsJson(c) /\ Answered(c)
         /\ calls[c].outcome.body \in NotJson)
        => /\ calls[c].state = "rejected"
           /\ calls[c].result = SyntaxError
           /\ calls[c].result # JText(calls[c].outcome.body)

\* A site call answered with an empty body.
C23_Witness ==
    \E c \in Slots :
        /\ IsOp(c, {"site"}) /\ Answered(c)
        /\ calls[c].outcome.body = EmptyBody
        /\ calls[c].state = "rejected"
        /\ calls[c].result = SyntaxError

\* The HTTP method the endpoint list gives an operation.
EndpointMethod(op) ==
    CASE op \in {"create", "update", "reorder"} -> "POST"
      [] op = "destroy" -> "DELETE"
      [] OTHER -> "GET"

\* The paths the endpoint list gives the operation of the call in slot c,
\* with the identifiers of the call filled in; for create, read and site the
\* list names no path.  The query string of a URL is not part of its path.
EndpointPath(c) ==
    LET a == calls[c].args
        op == calls[c].op
        sid == IF "siteId" \in DOMAIN a /\ a.siteId \in SiteRefs
               THEN Interp(a.siteId) ELSE ""
        nid == IF "noteId" \in DOMAIN a THEN Interp(a.noteId) ELSE ""
    IN CASE op = "sites" -> "/sites"
         [] op = "latestNotes" -> "/sites/" \o sid \o "/notes"
         [] op = "me" -> "/accounts/me"
         [] op = "search" -> "/sites/" \o a.sitePath \o "/notes/search"
         [] op = "body" -> "/sites/" \o sid \o "/notes/" \o nid \o "/body"
         [] op = "links" ->
              "/sites/" \o sid \o "/notes/" \o nid \o "/links"
                  \o (IF a.format = JStr("html") THEN "" ELSE ".json")
         [] op = "update" -> "/sites/" \o sid \o "/notes/" \o nid
         [] op = "reorder" -> "/sites/" \o sid \o "/notes/reorder"
         [] op = "destroy" -> "/sites/" \o sid \o "/notes/" \o nid

\* The query strings the operations put after their path.
EndpointQueries(c) ==
    LET a == calls[c].args
        op == calls[c].op
        anyVisibility ==
            {""} \cup {"&visibility=" \o w : w \in NoteVisibility}
    IN CASE op = "latestNotes" ->
              {""} \cup {"?page=" \o ToString(n) \o v :
                             n \in 1..MaxPage, v \in anyVisibility}
         [] op = "search" ->
              {"?term=" \o UriEncoded(a.term) \o "&page=" \o ToString(n) \o v :
                  n \in 1..MaxPage, v \in anyVisibility}
         [] OTHER -> {""}

\* C24: each operation uses the method and the path of the endpoint list,
\* under the base https://collectednotes.com: GET for sites, latestNotes, me,
\* search, body, links, read and site, POST for create, update and reorder,
\* DELETE for destroy.
C24_MethodsAndPaths ==
    \A c \in Slots :
        (IsLive(c) /\ calls[c].requests # <<>>)
        => LET req == calls[c].requests[1]
           IN /\ req.method = EndpointMethod(calls[c].op)
              /\ calls[c].op \notin {"create", "read", "site"}
                 => req.url \in {"https://collectednotes.com"
                                    \o EndpointPath(c) \o q :
                                 q \in EndpointQueries(c)}

\* A destroy of note 12 of site 1.
C24_Witness ==
    \E c \in Slots :
        /\ IsOp(c, {"destroy"})
        /\ calls[c].requests[1].method = "DELETE"
        /\ calls[c].requests[1].url
               = "https://collectednotes.com/sites/1/notes/12"

\* C25: create posts to the default endpoint /notes/add only when no site
\* identifier is supplied; for every identifier supplied, the number 0 and
\* the empty string included, it posts to /sites/{identifier}/notes.
C25_DefaultOnlyWithoutSite ==
    \A c \in Slots :
        (IsOp(c, {"create"}) /\ calls[c].requests # <<>>)
        => LET siteId == calls[c].args.siteId
               url == calls[c].requests[1].url
           IN /\ url = "https://collectednotes.com/notes/add"
                 => siteId = JUndef
              /\ siteId # JUndef
                 => url = "https://collectednotes.com/sites/"
                              \o Interp(siteId) \o "/notes"

(***************************************************************************)
(* The query string of a search request, character by character, and the   *)
(* parameters a server reads from it: the string is cut at every "&", each *)
(* piece at its first "=", and the percent escapes of a value are decoded  *)
(* to the UTF-16 code units of the string they stand for.                  *)
(***************************************************************************)
\* The characters after the "?" of the URL search builds for the call in
\* slot c.
SearchQuery(c) ==
    LET a == calls[c].args
    IN <<"t", "e", "r", "m", "=">> \o EncodedChars(a.term)
           \o <<"&", "p", "a", "g", "e", "=",
                Interp(Default(a.page, JNum(1)))>>
           \o (IF a.visibility = JUndef THEN <<>>
               ELSE <<"&", "visibility", "=", a.visibility.v>>)

\* chars cut at every occurrence of sep.
RECURSIVE SplitOn(_, _)
SplitOn(chars, sep) ==
    IF \A i \in 1..Len(chars) : chars[i] # sep THEN <<chars>>
    ELSE LET i == CHOOSE i \in 1..Len(chars) :
                     chars[i] = sep /\ \A j \in 1..(i - 1) : chars[j] # sep
         IN <<SubSeq(chars, 1, i - 1)>>
                \o SplitOn(SubSeq(chars, i + 1, Len(chars)), sep)

HexValue(h) == (CHOOSE i \in 1..16 : HexChars[i] = h) - 1
\* The code unit of a character that stands for itself.
Ord(ch) == (CHOOSE p \in UriUnescaped : p[2] = ch)[1]

\* The bytes a percent-encoded value stands for.
RECURSIVE PercentDecoded(_)
PercentDecoded(chars) ==
    IF chars = <<>> THEN <<>>
    ELSE IF Head(chars) = "%"
    THEN <<16 * HexValue(chars[2]) + HexValue(chars[3])>>
             \o PercentDecoded(SubSeq(chars, 4, Len(chars)))
    ELSE <<Ord(Head(chars))>> \o PercentDecoded(Tail(chars))

\* The UTF-16 code units of the code point cp.
CodeUnits(cp) ==
    IF cp < 65536 THEN <<cp>>
    ELSE <<55296 + ((cp - 65536) \div 1024), 56320 + ((cp - 65536) % 1024)>>

\* The UTF-16 code units of a string given as its UTF-8 bytes.
RECURSIVE UTF8Decoded(_)
UTF8Decoded(bytes) ==
    IF bytes = <<>> THEN <<>>
    ELSE LET b == Head(bytes)
             n == CASE b < 128 -> 1
                    [] b >= 192 /\ b < 224 -> 2
                    [] b >= 224 /\ b < 240 -> 3
                    [] OTHER -> 4
             cp == CASE n = 1 -> b
                     [] n = 2 -> (b - 192) * 64 + (bytes[2] - 128)
                     [] n = 3 -> (b - 224) * 4096 + (bytes[2] - 128) * 64
                                     + (bytes[3] - 128)
                     [] n = 4 -> (b - 240) * 262144 + (bytes[2] - 128) * 4096
                                     + (bytes[3] - 128) * 64 + (bytes[4] - 128)
         IN CodeUnits(cp) \o UTF8Decoded(SubSeq(bytes, n + 1, Len(bytes)))

\* The name and the value, as written, of one piece of a query string.
Parameter(piece) ==
    LET parts == SplitOn(piece, "=")
    IN [name |-> Join(parts[1]),
        value |-> IF \E i \in 1..Len(piece) : piece[i] = "="
                  THEN SubSeq(piece, Len(parts[1]) + 2, Len(piece))
                  ELSE <<>>]

\* The parameters of a query string, in order.
Parameters(query) ==
    LET pieces == SplitOn(query, "&")
    IN [i \in 1..Len(pieces) |-> Parameter(pieces[i])]

\* C26: for every search term, those with "&" included, the URL of search
\* has exactly one term parameter, whose decoded value is the term given,
\* and the term adds no parameter: the parameters are term, page and, when
\* a visibility is given, visibility, with the values of the arguments.
C26_TermCannotInject ==
    \A c \in Slots :
        IsOp(c, {"search"})
        => LET a == calls[c].args
               params == Parameters(SearchQuery(c))
           IN /\ calls[c].requests[1].url
                     = "https://collectednotes.com/sites/" \o a.sitePath
                           \o "/notes/search?" \o Join(SearchQuery(c))
              /\ Cardinality({i \in 1..Len(params) :
                                 params[i].name = "term"}) = 1
              /\ params[1].name = "term"
              /\ UTF8Decoded(PercentDecoded(params[1].value)) = a.term
              /\ params[2].name = "page"
              /\ Join(params[2].value) = Interp(Default(a.page, JNum(1)))
              /\ Len(params) = IF a.visibility = JUndef THEN 2 ELSE 3
              /\ a.visibility # JUndef
                 => /\ params[3].name = "visibility"
                    /\ Join(params[3].value) = a.visibility.v

\* C27: two clients made with different credentials do not affect each
\* other: after any interleaving of operations on both, every request of a
\* client carries the Authorization built from that client's own email and
\* token.
C27_ClientsIsolated ==
    \A k \in DOMAIN calls :
        IsOp(k, AuthenticatedOps)
        => \A i \in 1..Len(calls[k].requests) :
              /\ HeaderOf(calls[k].requests[i], "Authorization")
                     = ClientCredentials[k][1] \o " "
                           \o ClientCredentials[k][2]
              /\ \A j \in DOMAIN calls :
                    j # k
                    => HeaderOf(calls[k].requests[i], "Authorization")
                           # ClientCredentials[j][1] \o " "
                                 \o ClientCredentials[j][2]

\* A create in flight on one client and a search on the other, each with
\* the credentials of its client.
C27_Witness ==
    /\ IsOp(1, {"create"}) /\ calls[1].state = "pending"
    /\ IsOp(2, {"search"}) /\ calls[2].state = "pending"
    /\ HeaderOf(calls[1].requests[1], "Authorization")
           = "your@email.com secret-token"
    /\ HeaderOf(calls[2].requests[1], "Authorization")
           = "other@email.com other-token"

\* C28: in the validating revision, create and update called with a content
\* that has no visibility send the visibility "private" in the payload, and
\* send the visibility given when there is one.
C28_VisibilityDefaultsToPrivate ==
    \A c \in Slots :
        (/\ variant = "validating"
         /\ IsOp(c, {"create", "update"})
         /\ calls[c].requests # <<>>)
        => LET note == calls[c].args.note
               expected == IF note.visibility = JUndef THEN JStr("private")
                           ELSE note.visibility
           IN JSONparse(calls[c].requests[1].body)
                  = JObj(<< <<"note",
                              JObj(<< <<"body", JStr(Join(note.body))>>,
                                      <<"visibility", expected>> >>)>> >>)

\* A validating create of a content that is a body only.
C28_Witness ==
    \E c \in Slots :
        /\ variant = "validating"
        /\ IsOp(c, {"create"})
        /\ calls[c].args.note.visibility = JUndef
        /\ calls[c].requests # <<>>
        /\ JSONparse(calls[c].requests[1].body)
               = JObj(<< <<"note", JObj(<< <<"body", JStr("# T")>>,
                                           <<"visibility", JStr("private")>> >>)>> >>)

\* C29: read called with a format that is none of json, md and txt issues no
\* request and resolves to undefined instead of failing; with each of the
\* three formats (and with none, which is json) it issues exactly one
\* request.
C29_ReadUnknownFormat ==
    \A c \in Slots :
        IsOp(c, {"read"})
        => IF calls[c].args.format \in {JStr("json"), JStr("md"), JStr("txt"),
                                        JUndef}
           THEN Len(calls[c].requests) = 1
           ELSE /\ calls[c].requests = <<>>
                /\ calls[c].state = "fulfilled"
                /\ calls[c].result = JUndef

\* A read asked for html.
C29_Witness ==
    \E c \in Slots :
        /\ IsOp(c, {"read"})
        /\ calls[c].args.format = JStr("html")
        /\ calls[c].state = "fulfilled"
        /\ calls[c].result = JUndef
        /\ calls[c].requests = <<>>

====
